---------------------------- MODULE Spec2Model ----------------------------
(***************************************************************************)
(* Model of the NL->SQL pipeline of foss-project-cow-print:                *)
(*   - the Reasoning Core (src/sqlm.py): GeminiReasoner.generate, the      *)
(*     validator parse_and_validate_sql and the deterministic substitute   *)
(*     simple_mock_llm_generate;                                           *)
(*   - the Schema Snapshot Manager (src/schema_awareness.py):              *)
(*     SchemaAwarenessModule.                                              *)
(* Texts are modelled as sequences of tokens (maximal runs of word         *)
(* characters, or single punctuation marks); floats 0.0/0.4/0.9 are the    *)
(* integers 0/4/9 (tenths).                                                *)
(***************************************************************************)
EXTENDS Integers, Sequences, FiniteSets, TLC

VARIABLES
    modules,    \* which optional imports succeeded: sqlglot, google.generativeai
    reasoner,   \* GeminiReasoner instance: schema_snapshot, api_key
    rcall,      \* the last generate() call: its inputs and the handler's locals
    rout,       \* what the last generate() call gave its caller
    sam,        \* SchemaAwarenessModule instance fields
    files,      \* the files under output_dir
    db,         \* the connected database (environment)
    clock,      \* the time datetime.now() gave when it was last read
    scall,      \* the last SchemaAwarenessModule call: operation, return, inner calls
    sessions,   \* the callers that share the reasoner: where each is, the lock
    parsed_command, \* the ParsedCommand the last CommandProcessor.process returned
    app         \* the dashboard: what its last step executed

rvars == <<modules, reasoner, rcall, rout>>
svars == <<sam, files, db, clock, scall>>
avars == <<sessions, parsed_command, app>>
vars  == <<modules, reasoner, rcall, rout, sam, files, db, clock, scall, sessions,
           parsed_command, app>>

-----------------------------------------------------------------------------
(* Generic helpers *)

Range(s) == {s[i] : i \in 1..Len(s)}

Min(a, b) == IF a <= b THEN a ELSE b


-----------------------------------------------------------------------------
(* Bounds of the model *)

\* Longest raw backend output the model draws (characters).
MaxRawLen == 3000

\* text[:1000] in both parse-failure returns of generate.
SnippetCap == 1000

\* MAX_SCHEMA_PROMPT_CHARS (its default), len("\n...[TRUNCATED]"), and the
\* length of the prompt build_user_prompt makes of three empty strings.
MAX_SCHEMA_PROMPT_CHARS == 14000

MarkerLen == 15

PromptFrameLen == 910

\* How far the longest schema text drawn exceeds the budget (characters).
MaxExcess == 2000

\* The characters a line of a schema file is counted with.
LineChars == 24

\* Longest password and longest driver error text drawn (characters).
MaxPwdLen == 2

MaxMsgLen == 3

\* Most generate calls the two sessions make together.
MaxRounds == 4

\* Most columns a table of the database gets.
MaxCols == 2

\* Highest snapshot version the model lets generate_full_schema reach.
MaxVersion == 2

-----------------------------------------------------------------------------
(* Texts as token sequences *)

\* str.lower() on the tokens of the corpora below.
Lower(tok) ==
    CASE tok = "DROP"     -> "drop"
      [] tok = "TABLE"    -> "table"
      [] tok = "SELECT"   -> "select"
      [] tok = "FROM"     -> "from"
      [] tok = "WHERE"    -> "where"
      [] tok = "Truncate" -> "truncate"
      [] tok = "ALTER"    -> "alter"
      [] tok = "ADD"      -> "add"
      [] tok = "INT"      -> "int"
      [] tok = "CREATE"   -> "create"
      [] tok = "COUNT"    -> "count"
      [] tok = "LIKE"     -> "like"
      [] tok = "VARCHAR"  -> "varchar"
      [] tok = "Produce"  -> "produce"
      [] tok = "A"        -> "a"
      [] tok = "Delete"   -> "delete"
      [] tok = "JSON"     -> "json"
      [] OTHER            -> tok

\* str.upper() on the single characters the "starts with" rule captures.
Upper(ch) ==
    CASE ch = "a" -> "A"
      [] ch = "b" -> "B"
      [] OTHER    -> ch

\* re \w+ : a token that is a run of word characters.
IsWord(tok) == tok \notin {",", ";", "(", ")", "*", "'", "%", "."}

\* A JSON "sql" value as json.loads delivers it: null, a string (its tokens),
\* a number or a list.  parses is the verdict sqlglot.parse_one gives on the
\* text, tables the Table nodes of its AST.
SqlStr(toks, parses, tables) ==
    [kind |-> "str", toks |-> toks, parses |-> parses, tables |-> tables]

NullSql == [kind |-> "null", toks |-> <<>>, parses |-> FALSE, tables |-> {}]
NumSql  == [kind |-> "num",  toks |-> <<>>, parses |-> FALSE, tables |-> {}]
ListSql == [kind |-> "list", toks |-> <<>>, parses |-> FALSE, tables |-> {}]

\* Python truthiness of the value (None and "" are falsy; 5 and ["x"] truthy).
PyTruthy(sql) ==
    \/ sql.kind = "str" /\ sql.toks # <<>>
    \/ sql.kind \in {"num", "list"}

\* The SQL texts a backend may answer with.
SqlTexts == {
    SqlStr(<<"SELECT", "*", "FROM", "students">>, TRUE, {"students"}),
    SqlStr(<<"DROP", "TABLE", "students">>, TRUE, {"students"}),
    SqlStr(<<"delete", "from", "students">>, TRUE, {"students"}),
    SqlStr(<<"Truncate", "TABLE", "logs">>, TRUE, {"logs"}),
    SqlStr(<<"ALTER", "TABLE", "w", "ADD", "c", "INT">>, TRUE, {"w"}),
    SqlStr(<<"CREATE", "TABLE", "pets", "(", "name", "VARCHAR", ")">>, TRUE, {"pets"}),
    SqlStr(<<"SELECT", "dropped", "FROM", "audit">>, TRUE, {"audit"}),
    SqlStr(<<"SELECT", "*", "FROM", "students", ",", "classes">>, TRUE, {"students", "classes"}),
    SqlStr(<<"SELECT", "*", "FROM", "(">>, FALSE, {}),
    SqlStr(<<"DROP", "TABLE", "(">>, FALSE, {}),
    SqlStr(<<>>, FALSE, {}) }

SqlValues == SqlTexts \cup {NullSql, NumSql, ListSql}

-----------------------------------------------------------------------------
(* parse_and_validate_sql *)

DestructiveWarning == "Destructive keyword detected (drop/alter/delete/truncate)"
CartesianWarning   == "Multiple tables referenced without explicit JOIN/WHERE"

\* re.search(r'\b(drop|alter|delete|truncate)\b', lowered): some maximal run
\* of word characters is one of the four keywords.
DestructiveKeywords == {"drop", "alter", "delete", "truncate"}

HasDestructiveKeyword(toks) ==
    \E i \in 1..Len(toks) : Lower(toks[i]) \in DestructiveKeywords

\* "join" not in lowered and "where" not in lowered (no token of the corpora
\* holds either word as a proper substring).
HasJoinOrWhere(toks) ==
    \E i \in 1..Len(toks) : Lower(toks[i]) \in {"join", "where"}

\* Fallback extraction: the words following FROM or INTO.
RegexTables(toks) ==
    {toks[i + 1] : i \in {j \in 1..(Len(toks) - 1) :
                            /\ Lower(toks[j]) \in {"from", "into"}
                            /\ IsWord(toks[j + 1])}}

MetaKeys == {"tables", "columns", "pretty"}

Metadata(tables) == [keys |-> MetaKeys, tables |-> tables]
EmptyMetadata    == [keys |-> {}, tables |-> {}]

Validation(raised, ok, warnings, metadata) ==
    [raised |-> raised, ok |-> ok, warnings |-> warnings, metadata |-> metadata]

\* (ok, warnings, metadata), or the AttributeError of sql.lower() on a value
\* that is no string.
parse_and_validate_sql(sql, sqlglot) ==
    IF ~PyTruthy(sql)
    THEN Validation(FALSE, FALSE, <<"No SQL provided">>, Metadata({}))
    ELSE IF sql.kind # "str"
    THEN Validation(TRUE, FALSE, <<>>, EmptyMetadata)
    ELSE LET kw == IF HasDestructiveKeyword(sql.toks)
                   THEN <<DestructiveWarning>> ELSE <<>>
         IN IF sqlglot
            THEN IF ~sql.parses
                 THEN Validation(FALSE, FALSE, <<"sqlglot parse error">>, Metadata({}))
                 ELSE Validation(FALSE, TRUE,
                        IF Cardinality(sql.tables) > 1 /\ ~HasJoinOrWhere(sql.toks)
                        THEN Append(kw, CartesianWarning) ELSE kw,
                        Metadata(sql.tables))
            ELSE Validation(FALSE, TRUE, kw, Metadata(RegexTables(sql.toks)))

-----------------------------------------------------------------------------
(* The backend's answer *)

\* A JSON flag as json.loads delivers it, and bool() of it.
JsonFlags == {"true", "false", "absent"}

PyBool(flag) == flag = "true"

JsonObj(sql, intent, destructive, clarify_required, explanation) ==
    [sql |-> sql, intent |-> intent, destructive |-> destructive,
     clarify_required |-> clarify_required, explanation |-> explanation]

NoObj == JsonObj(NullSql, "", "absent", "absent", "")

\* The text a backend returned.  kind: what the text is once the code fence is
\* off ("object": a JSON object; "list", "null": JSON that is no object;
\* "prose_object": prose around a JSON object; "prose_braces": prose holding
\* a '{' before a '}' that is no JSON in between; "prose": no such braces).
\* fence: "none", "json" (```json), "bare" (```), "lang" (```sql: the
\* language tag stays in the text).  len: the length of the stripped text.
Response(kind, fence, len, obj) ==
    [kind |-> kind, fence |-> fence, len |-> len, obj |-> obj]

-----------------------------------------------------------------------------
(* simple_mock_llm_generate *)

\* The natural-language commands the model draws (cmd.normalized or raw_nl).
Commands == {
    <<"count", "how", "many", "classes", "exist">>,
    <<"count", "rows", "from", "orders">>,
    <<"count", "rows", "of", "orders">>,
    <<"count", "the", "rows">>,
    <<"show", "me", "students", "whose", "surname", "starts", "with", "A">>,
    <<"create", "a", "new", "table", "called", "pets", "with", "fields",
      "name", ",", "species", ",", "age">>,
    <<"create", "table", "called", "pets", "with", "fields", "name", ",">>,
    <<"show", "me", "all", "users">>,
    <<"show", "count", "from", "users">>,
    <<"show", "me">>,
    <<"create", "table", "called", "pets", "with", "fields">>,
    <<"list", "students">>,
    <<"asdkjasldk", "random", "nonsense">> }

\* len(command_text) for the commands above.
CommandLen(command_text) ==
    CASE command_text = <<"count", "how", "many", "classes", "exist">> -> 28
      [] command_text = <<"count", "rows", "from", "orders">> -> 22
      [] command_text = <<"count", "rows", "of", "orders">> -> 20
      [] command_text = <<"count", "the", "rows">> -> 14
      [] command_text = <<"show", "me", "students", "whose", "surname", "starts",
                          "with", "A">> -> 44
      [] command_text = <<"create", "a", "new", "table", "called", "pets", "with",
                          "fields", "name", ",", "species", ",", "age">> -> 61
      [] command_text = <<"create", "table", "called", "pets", "with", "fields",
                          "name", ",">> -> 42
      [] command_text = <<"show", "me", "all", "users">> -> 17
      [] command_text = <<"show", "count", "from", "users">> -> 21
      [] command_text = <<"show", "me">> -> 7
      [] command_text = <<"create", "table", "called", "pets", "with", "fields">> -> 36
      [] command_text = <<"list", "students">> -> 13
      [] command_text = <<"asdkjasldk", "random", "nonsense">> -> 26
      [] OTHER -> 0

\* len(dialect)
DialectLen(dialect) ==
    CASE dialect = "" -> 0
      [] dialect = "mysql" -> 5
      [] OTHER -> 6

\* A schema text: what it says (a literal, or the lines of the file it was
\* read from) and its length in characters.
SchemaText(name, len, lines) == [name |-> name, len |-> len, lines |-> lines]

NO_SCHEMA_PROVIDED == SchemaText("NO_SCHEMA_PROVIDED", 18, <<>>)

\* A build_user_prompt that cut the schema text and appended nothing.
TruncateSilently(schema_snapshot) ==
    [text |-> [schema_snapshot EXCEPT !.len = Min(@, MAX_SCHEMA_PROMPT_CHARS)],
     marker |-> FALSE]

\* schema_snapshot[:MAX_SCHEMA_PROMPT_CHARS] + "\n...[TRUNCATED]" when the text
\* is longer than the budget; marker: the prompt holds the marker.
Truncate(schema_snapshot) ==
    IF schema_snapshot.len > MAX_SCHEMA_PROMPT_CHARS
    THEN [text |-> [schema_snapshot EXCEPT !.len = MAX_SCHEMA_PROMPT_CHARS + MarkerLen],
          marker |-> TRUE]
    ELSE [text |-> schema_snapshot, marker |-> FALSE]

\* build_user_prompt: the system prompt, the schema text, the dialect and the
\* request; the prompt ends "USER_REQUEST: {command_text}\n\nProduce the JSON
\* output matching the structure above."  len is len(prompt).
build_user_prompt(schema_snapshot, command_text, dialect) ==
    LET t == Truncate(schema_snapshot)
    IN [schema |-> t.text, marker |-> t.marker, dialect |-> dialect,
        command |-> command_text,
        len |-> PromptFrameLen + t.text.len + DialectLen(dialect)
                + CommandLen(command_text)]

PromptTrailer ==
    <<"Produce", "the", "JSON", "output", "matching", "the", "structure", "above", ".">>

LowerAll(toks) == [i \in 1..Len(toks) |-> Lower(toks[i])]

Least(S) == CHOOSE i \in S : \A j \in S : i <= j

\* str.split(","): the parts between the commas.
RECURSIVE SplitByComma(_)
SplitByComma(toks) ==
    LET commas == {i \in 1..Len(toks) : toks[i] = ","}
    IN IF commas = {}
       THEN <<toks>>
       ELSE LET c == Least(commas)
            IN <<SubSeq(toks, 1, c - 1)>> \o SplitByComma(SubSeq(toks, c + 1, Len(toks)))

\* ', '.join(f"{name} VARCHAR(255)" for name in fields)
RECURSIVE FieldDefs(_)
FieldDefs(names) ==
    IF names = <<>> THEN <<>>
    ELSE <<names[1], "VARCHAR", "(", "255", ")">>
         \o (IF Len(names) > 1 THEN <<",">> ELSE <<>>)
         \o FieldDefs(Tail(names))

MockAnswer(raised, obj) == [raised |-> raised, obj |-> obj]

\* A count rule that knew "from <table>" only.
MockCountFromOnly(cmd) ==
    LET froms == {i \in 1..(Len(cmd) - 1) : cmd[i] = "from" /\ IsWord(cmd[i + 1])}
    IN IF froms # {}
       THEN JsonObj(SqlStr(<<"SELECT", "COUNT", "(", "*", ")", "FROM",
                             cmd[Least(froms) + 1], ";">>,
                           TRUE, {cmd[Least(froms) + 1]}),
                    "select", "false", "false", "Count rows")
       ELSE JsonObj(NullSql, "select", "false", "true", "Count rows")

\* rule 1: re.search(r'\bcount\b', cmd_lower)
MockCount(cmd) ==
    LET froms == {i \in 1..(Len(cmd) - 1) : cmd[i] = "from" /\ IsWord(cmd[i + 1])}
        hows  == {i \in 1..(Len(cmd) - 2) :
                    cmd[i] = "how" /\ cmd[i + 1] = "many" /\ IsWord(cmd[i + 2])}
        tbl   == IF froms # {} THEN cmd[Least(froms) + 1]
                 ELSE IF hows # {} THEN cmd[Least(hows) + 2]
                 ELSE ""
    IN IF tbl # ""
       THEN JsonObj(SqlStr(<<"SELECT", "COUNT", "(", "*", ")", "FROM", tbl, ";">>,
                           TRUE, {tbl}),
                    "select", "false", "false", "Count rows")
       ELSE JsonObj(NullSql, "select", "false", "true", "Count rows")

\* rule 2: surname\s+(?:that\s+)?starts\s+with\s+'?"?([a-zA-Z0-9])
StartsWithAt(cmd) ==
    {i \in 1..Len(cmd) :
        /\ cmd[i] = "surname"
        /\ LET j == IF i + 1 <= Len(cmd) /\ cmd[i + 1] = "that" THEN i + 2 ELSE i + 1
           IN /\ j + 2 <= Len(cmd)
              /\ cmd[j] = "starts" /\ cmd[j + 1] = "with"
              /\ IsWord(cmd[j + 2])}

MockStartsWith(cmd) ==
    LET i  == Least(StartsWithAt(cmd))
        j  == IF cmd[i + 1] = "that" THEN i + 2 ELSE i + 1
        ch == Upper(cmd[j + 2])
    IN JsonObj(SqlStr(<<"SELECT", "*", "FROM", "students", "WHERE", "surname",
                        "LIKE", "'", ch, "%", "'", ";">>, TRUE, {"students"}),
               "select", "false", "false", "Surname starts with")

\* rule 3: create\s+(?:a\s+)?(?:new\s+)?table\s+called\s+(\w+)\s+with\s+fields\s+(.+)
\* The position of the table name, 0 when the pattern is not at i.
CreateNameAt(cmd, i) ==
    LET a == IF i + 1 <= Len(cmd) /\ cmd[i + 1] = "a" THEN i + 2 ELSE i + 1
        n == IF a <= Len(cmd) /\ cmd[a] = "new" THEN a + 1 ELSE a
    IN IF /\ cmd[i] = "create"
          /\ n + 5 <= Len(cmd)
          /\ cmd[n] = "table" /\ cmd[n + 1] = "called" /\ IsWord(cmd[n + 2])
          /\ cmd[n + 3] = "with" /\ cmd[n + 4] = "fields"
       THEN n + 2 ELSE 0

CreateAt(cmd) == {i \in 1..Len(cmd) : CreateNameAt(cmd, i) # 0}

\* (.+) is the rest of the line the fields start on: of the request, or of
\* the prompt's last line when the request ends at "fields".
\* part.strip().split()[0] raises IndexError on an empty part.
MockCreate(cmd, cmdlen) ==
    LET t     == CreateNameAt(cmd, Least(CreateAt(cmd)))
        tbl   == cmd[t]
        parts == SplitByComma(IF t + 3 <= cmdlen
                              THEN SubSeq(cmd, t + 3, cmdlen)
                              ELSE SubSeq(cmd, t + 3, Len(cmd)))
    IN IF \E k \in 1..Len(parts) : parts[k] = <<>>
       THEN MockAnswer(TRUE, NoObj)
       ELSE MockAnswer(FALSE,
              JsonObj(SqlStr(<<"CREATE", "TABLE", tbl, "(">>
                             \o FieldDefs([k \in 1..Len(parts) |-> parts[k][1]])
                             \o <<")", ";">>, TRUE, {tbl}),
                      "create_table", "true", "false", "Create table"))

\* rule 4: \bshow(?: me)?(?: all)?(?: the)?(?: rows)?(?: of)?\s*(\w+)
\* The optional words are taken greedily, in this order; when no word is left
\* after them the last one taken is given back and becomes the table.
RECURSIVE SkipOptional(_, _, _)
SkipOptional(cmd, p, opts) ==
    IF opts = <<>> THEN p
    ELSE IF p <= Len(cmd) /\ cmd[p] = opts[1]
         THEN SkipOptional(cmd, p + 1, Tail(opts))
         ELSE SkipOptional(cmd, p, Tail(opts))

ShowTableAt(cmd, i) ==
    LET p == SkipOptional(cmd, i + 1, <<"me", "all", "the", "rows", "of">>)
    IN IF p <= Len(cmd) THEN p ELSE p - 1

ShowAt(cmd) ==
    {i \in 1..Len(cmd) :
        cmd[i] = "show" /\ ShowTableAt(cmd, i) > i /\ IsWord(cmd[ShowTableAt(cmd, i)])}

MockShow(cmd) ==
    LET tbl == cmd[ShowTableAt(cmd, Least(ShowAt(cmd)))]
    IN JsonObj(SqlStr(<<"SELECT", "*", "FROM", tbl, ";">>, TRUE, {tbl}),
               "select", "false", "false", "Select all rows from")

MockFallback ==
    JsonObj(NullSql, "other", "false", "true", "Ambiguous request")

\* A substitute that tried the show rule before the others.
MockShowFirst(prompt) ==
    LET cmd    == LowerAll(prompt.command \o PromptTrailer)
        cmdlen == Len(prompt.command)
    IN IF ShowAt(cmd) # {}              THEN MockAnswer(FALSE, MockShow(cmd))
       ELSE IF "count" \in Range(cmd)   THEN MockAnswer(FALSE, MockCount(cmd))
       ELSE IF StartsWithAt(cmd) # {}   THEN MockAnswer(FALSE, MockStartsWith(cmd))
       ELSE IF CreateAt(cmd) # {}       THEN MockCreate(cmd, cmdlen)
       ELSE MockAnswer(FALSE, MockFallback)

\* cmd is everything after "USER_REQUEST:" (re.DOTALL), the prompt's closing
\* line included.  The rules in the order of the code; the first that matches
\* answers.
simple_mock_llm_generate(prompt) ==
    LET cmd    == LowerAll(prompt.command \o PromptTrailer)
        cmdlen == Len(prompt.command)
    IN IF "count" \in Range(cmd)        THEN MockAnswer(FALSE, MockCount(cmd))
       ELSE IF StartsWithAt(cmd) # {}   THEN MockAnswer(FALSE, MockStartsWith(cmd))
       ELSE IF CreateAt(cmd) # {}       THEN MockCreate(cmd, cmdlen)
       ELSE IF ShowAt(cmd) # {}         THEN MockAnswer(FALSE, MockShow(cmd))
       ELSE MockAnswer(FALSE, MockFallback)

-----------------------------------------------------------------------------
(* GeminiReasoner *)

DEFAULT_DIALECT == "mysql"

\* CommandPayload: intent ("" when empty), the command text (normalized or
\* raw_nl), allow_destructive, dialect ("" when None).
CommandPayload(intent, command, allow_destructive, dialect) ==
    [intent |-> intent, command |-> command,
     allow_destructive |-> allow_destructive, dialect |-> dialect]

\* An entry of errors: its text and the length of the raw-output snippet
\* embedded in it (0 when it embeds none).
ErrorMsg(text, snippet) == [text |-> text, snippet |-> snippet]

ValidationFailed  == ErrorMsg("SQL parse/validation failed.", 0)
DestructiveError  ==
    ErrorMsg("Destructive operation detected but allow_destructive is False.", 0)
BlockedWarning    == "Blocked destructive operation because allow_destructive=False"

\* What generate gives its caller: a ReasonerOutput (status "returned") or an
\* exception that leaves generate (status "raised", exc its type).
ReasonerOutput(sql, intent, dialect, warnings, errors, metadata, explain_text, confidence, safe_to_execute) ==
    [status |-> "returned", exc |-> "",
     sql |-> sql, intent |-> intent, dialect |-> dialect, warnings |-> warnings,
     errors |-> errors, metadata |-> metadata, explain_text |-> explain_text,
     confidence |-> confidence, safe_to_execute |-> safe_to_execute]

Raised(exc) ==
    [ReasonerOutput(NullSql, "", "", <<>>, <<>>, EmptyMetadata, "", 0, FALSE)
        EXCEPT !.status = "raised", !.exc = exc]

NoOutput ==
    [ReasonerOutput(NullSql, "", "", <<>>, <<>>, EmptyMetadata, "", 0, FALSE)
        EXCEPT !.status = "none"]

_use_real_genai == modules.genai /\ reasoner.api_key

\* A generate that embedded the whole raw output in its error.
SnippetUncapped(len) == len

\* text[:1000]
Snippet(len) == Min(len, SnippetCap)

\* json.loads(text), then json.loads(text[s:e+1]) on the slice from the first
\* '{' to the last '}': "dict", "nondict" (a list, null), "fail_salvage"
\* (both loads failed), "fail_noblob" (no slice to try).
ParseJson(resp) ==
    CASE resp.kind = "object"       -> "dict"
      [] resp.kind = "prose_object" -> "dict"
      [] resp.kind \in {"list", "null"} ->
            IF resp.fence = "lang" THEN "fail_noblob" ELSE "nondict"
      [] resp.kind = "prose_braces" -> "fail_salvage"
      [] OTHER                      -> "fail_noblob"

\* A gate that blocks every destructive answer, permitted or not.
SafeToExecuteIgnoringAllow(ok, destructive_flag, allow_destructive, clarify_required) ==
    ok /\ ~destructive_flag /\ ~clarify_required

\* A gate that let an answer through while clarification was required.
SafeToExecuteIgnoringClarify(ok, destructive_flag, allow_destructive, clarify_required) ==
    ok /\ (~destructive_flag \/ allow_destructive)

\* safe_to_execute = ok and (not destructive_flag or cmd.allow_destructive)
\*                   and (not clarify_required)
SafeToExecute(ok, destructive_flag, allow_destructive, clarify_required) ==
    ok /\ (~destructive_flag \/ allow_destructive) /\ ~clarify_required

\* A confidence that did not look at clarify_required.
ConfidenceIgnoringClarify(ok, clarify_required) == IF ok THEN 9 ELSE 4

\* confidence = 0.9 if ok and not clarify_required else 0.4   (tenths)
Confidence(ok, clarify_required) ==
    IF ok /\ ~clarify_required THEN 9 ELSE 4

\* errors of the normal path
Errors(ok, destructive_flag, allow_destructive) ==
    (IF ~ok THEN <<ValidationFailed>> ELSE <<>>)
    \o (IF destructive_flag /\ ~allow_destructive THEN <<DestructiveError>> ELSE <<>>)

Frame(parsed, ok, destructive_flag, clarify_required, out) ==
    [parsed |-> parsed, ok |-> ok, destructive_flag |-> destructive_flag,
     clarify_required |-> clarify_required, out |-> out]

ErrorOutput(cmd, dialect, errors) ==
    Frame(FALSE, FALSE, FALSE, FALSE,
          ReasonerOutput(NullSql, cmd.intent, dialect, <<>>, errors,
                         EmptyMetadata, "", 0, FALSE))

\* generate from "Read expected fields" on, json_obj being a dict.
Assemble(cmd, dialect, obj) ==
    LET sql   == obj.sql
        intent == IF obj.intent # "" THEN obj.intent
                  ELSE IF cmd.intent # "" THEN cmd.intent ELSE "select"
        destructive_flag == PyBool(obj.destructive)
        clarify_required == PyBool(obj.clarify_required)
        v     == IF PyTruthy(sql)
                 THEN parse_and_validate_sql(sql, modules.sqlglot)
                 ELSE Validation(FALSE, FALSE, <<"No SQL returned">>, EmptyMetadata)
        warnings == IF destructive_flag /\ ~cmd.allow_destructive
                    THEN Append(v.warnings, BlockedWarning) ELSE v.warnings
    IN IF v.raised
       THEN Frame(TRUE, FALSE, destructive_flag, clarify_required,
                  Raised("AttributeError"))
       ELSE Frame(TRUE, v.ok, destructive_flag, clarify_required,
              ReasonerOutput(sql, intent, dialect, warnings,
                  Errors(v.ok, destructive_flag, cmd.allow_destructive),
                  v.metadata, obj.explanation,
                  Confidence(v.ok, clarify_required),
                  SafeToExecute(v.ok, destructive_flag, cmd.allow_destructive,
                                clarify_required)))

\* generate from the fence stripping on, raw_model_output being resp.
Interpret(cmd, dialect, resp) ==
    LET j == ParseJson(resp)
    IN CASE j = "fail_salvage" ->
              ErrorOutput(cmd, dialect,
                  <<ErrorMsg("Failed to parse model JSON. Salvage attempt also failed", 0),
                    ErrorMsg("raw_output_snippet:", Snippet(resp.len))>>)
         [] j = "fail_noblob" ->
              ErrorOutput(cmd, dialect,
                  <<ErrorMsg("Model output not valid JSON and no JSON blob found",
                             Snippet(resp.len))>>)
         [] j = "nondict" ->
              Frame(TRUE, FALSE, FALSE, FALSE, Raised("AttributeError"))
         [] OTHER -> Assemble(cmd, dialect, resp.obj)

\* _prepare_prompt
_prepare_prompt(cmd) ==
    build_user_prompt(reasoner.schema_snapshot, cmd.command,
                      IF cmd.dialect # "" THEN cmd.dialect ELSE DEFAULT_DIALECT)

\* The whole of generate: backend is what the real client does on this call
\* (fails: the call raised; resp: the text it returned).
GenerateResult(cmd, backend) ==
    LET dialect == Lower(IF cmd.dialect # "" THEN cmd.dialect ELSE DEFAULT_DIALECT)
        prompt  == _prepare_prompt(cmd)
    IN IF ~_use_real_genai
       THEN LET m == simple_mock_llm_generate(prompt)
            IN IF m.raised
               THEN Frame(FALSE, FALSE, FALSE, FALSE, Raised("IndexError"))
               ELSE Interpret(cmd, dialect, Response("object", "none", SnippetCap, m.obj))
       ELSE IF backend.fails
            THEN ErrorOutput(cmd, dialect, <<ErrorMsg("LLM call failed", 0)>>)
            ELSE Interpret(cmd, dialect, backend.resp)

-----------------------------------------------------------------------------
(* Actions of the Reasoning Core *)

Schemas ==
    {NO_SCHEMA_PROVIDED,
     SchemaText("Database: studentdb", 19, <<>>),
     SchemaText("Database: warehouse", MAX_SCHEMA_PROMPT_CHARS, <<>>),
     SchemaText("Database: warehouse", MAX_SCHEMA_PROMPT_CHARS + 1, <<>>),
     SchemaText("Database: warehouse", MAX_SCHEMA_PROMPT_CHARS + MaxExcess, <<>>)}

Payloads ==
    {CommandPayload(i, c, a, d) :
        i \in {"select", ""}, c \in Commands, a \in BOOLEAN, d \in {"", "SQLite"}}

\* With the real client the command text does not decide the answer.
RealPayloads ==
    {p \in Payloads : p.command = <<"asdkjasldk", "random", "nonsense">>}

RawLens == {0, SnippetCap - 1, SnippetCap, SnippetCap + 1, MaxRawLen}

JsonObjs ==
    {JsonObj(s, i, d, c, "because") :
        s \in SqlValues, i \in {"", "delete"}, d \in JsonFlags, c \in JsonFlags}

\* The objects that are also drawn inside a code fence or inside prose.
WrappedObjs ==
    {o \in JsonObjs :
        /\ o.sql \in {NullSql, SqlStr(<<"SELECT", "*", "FROM", "students">>, TRUE, {"students"}),
                      SqlStr(<<"DROP", "TABLE", "students">>, TRUE, {"students"})}
        /\ o.intent = ""}

Responses ==
    {Response("object", "none", SnippetCap - 1, o) : o \in JsonObjs}
    \cup {Response("object", "none", SnippetCap - 1, MockFallback)}
    \cup {Response("object", f, SnippetCap - 1, o) :
            f \in {"json", "bare", "lang"}, o \in WrappedObjs}
    \cup {Response("prose_object", "none", SnippetCap + 1, o) : o \in WrappedObjs}
    \cup {Response(k, f, SnippetCap - 1, NoObj) :
            k \in {"list", "null"}, f \in {"none", "json", "lang"}}
    \cup {Response("prose_braces", "none", n, NoObj) : n \in RawLens \ {0}}
    \cup {Response("prose", "none", n, NoObj) : n \in RawLens}

Backends ==
    {[fails |-> FALSE, resp |-> r] : r \in Responses}
    \cup {[fails |-> TRUE, resp |-> Response("prose", "none", 0, NoObj)]}

NoBackend == [fails |-> FALSE, resp |-> Response("prose", "none", 0, NoObj)]

NoCall ==
    [cmd |-> CommandPayload("", <<>>, FALSE, ""), backend |-> NoBackend,
     schema |-> SchemaText("", 0, <<>>),
     prompt |-> build_user_prompt(SchemaText("", 0, <<>>), <<>>, ""),
     parsed |-> FALSE, ok |-> FALSE, destructive_flag |-> FALSE,
     clarify_required |-> FALSE]

\* An update_schema that kept the text the instance held.
UpdateSchemaIgnored(r, schema_snapshot) == r

\* self.schema_snapshot = schema_snapshot
update_schema(r, schema_snapshot) == [r EXCEPT !.schema_snapshot = schema_snapshot]

\* update_schema(schema_snapshot)
UpdateSchema(schema) ==
    /\ rout.status = "none"
    /\ reasoner.schema_snapshot # schema
    /\ reasoner' = update_schema(reasoner, schema)
    /\ UNCHANGED <<modules, rcall, rout, svars, avars>>

\* generate(cmd), start to end.
Generate(cmd, backend) ==
    /\ rout.status = "none"
    /\ \E f \in {GenerateResult(cmd, backend)} :
          /\ rcall' = [cmd |-> cmd, backend |-> backend,
                       schema |-> reasoner.schema_snapshot,
                       prompt |-> _prepare_prompt(cmd),
                       parsed |-> f.parsed, ok |-> f.ok,
                       destructive_flag |-> f.destructive_flag,
                       clarify_required |-> f.clarify_required]
          /\ rout' = f.out
    /\ UNCHANGED <<modules, reasoner, svars, avars>>

GenerateMock ==
    /\ rout.status = "none" /\ ~_use_real_genai
    /\ \E cmd \in Payloads : Generate(cmd, NoBackend)

GenerateReal ==
    /\ rout.status = "none" /\ _use_real_genai
    /\ \E cmd \in RealPayloads, backend \in Backends : Generate(cmd, backend)

\* The caller takes the result (or the exception) and is ready to call again.
Receive ==
    /\ rout.status # "none"
    /\ rcall' = NoCall
    /\ rout' = NoOutput
    /\ UNCHANGED <<modules, reasoner, svars, avars>>

\* Two callers that share the reasoner, each with the schema text of its own
\* database.  Each runs update_schema(own text), then generate, and starts
\* again.  With locking the two calls are one critical section under a lock
\* the callers hold; without it the calls of the two interleave freely.
SessionNames == {"s1", "s2"}

SessionSchema(s) ==
    IF s = "s1" THEN SchemaText("Database: studentdb", 19, <<>>)
    ELSE SchemaText("Database: warehouse", MAX_SCHEMA_PROMPT_CHARS + MaxExcess, <<>>)

NoSchemaUsed == SchemaText("", 0, <<>>)

\* pc: "idle" before update_schema, "updated" between the two calls.
\* used: the schema text the last generate of the session built its prompt
\* from.  rounds: the generate calls made so far.
NoSessions ==
    [locking |-> FALSE, lock |-> "free",
     pc |-> [s \in SessionNames |-> "idle"],
     used |-> [s \in SessionNames |-> NoSchemaUsed],
     rounds |-> 0]

\* reasoner.update_schema(schema_text) of session s
SessionUpdateSchema(s) ==
    /\ sessions.pc[s] = "idle"
    /\ sessions.rounds < MaxRounds
    /\ sessions.locking => sessions.lock = "free"
    /\ reasoner' = update_schema(reasoner, SessionSchema(s))
    /\ sessions' = [sessions EXCEPT !.pc[s] = "updated",
                                    !.lock = IF sessions.locking THEN s ELSE @]
    /\ UNCHANGED <<modules, rcall, rout, svars, parsed_command, app>>

\* reasoner.generate(payload) of session s
SessionGenerate(s, cmd) ==
    /\ sessions.pc[s] = "updated"
    /\ \E f \in {GenerateResult(cmd, NoBackend)} :
          /\ rcall' = [cmd |-> cmd, backend |-> NoBackend,
                       schema |-> reasoner.schema_snapshot,
                       prompt |-> _prepare_prompt(cmd),
                       parsed |-> f.parsed, ok |-> f.ok,
                       destructive_flag |-> f.destructive_flag,
                       clarify_required |-> f.clarify_required]
          /\ rout' = f.out
    /\ sessions' = [sessions EXCEPT !.pc[s] = "idle",
                                    !.used[s] = reasoner.schema_snapshot,
                                    !.lock = "free",
                                    !.rounds = @ + 1]
    /\ UNCHANGED <<modules, reasoner, svars, parsed_command, app>>

SessionPayloads ==
    {CommandPayload("query", c, FALSE, "sqlite") :
        c \in {<<"list", "students">>, <<"show", "me", "all", "users">>,
               <<"count", "how", "many", "classes", "exist">>}}

SessionNext ==
    \/ \E s \in SessionNames : SessionUpdateSchema(s)
    \/ \E s \in SessionNames, cmd \in SessionPayloads : SessionGenerate(s, cmd)

-----------------------------------------------------------------------------
(* The Command Processing Layer (command_processor.py) *)

\* A command is its sequence of words; these stand for the characters the
\* normalisation replaces by a blank.
Punctuation == {"=", ",", "?", "<", ">", "!"}

\* _normalize_command: lower case, every character that is neither a word
\* character, a blank nor a quote becomes a blank, blanks are squeezed.  The
\* commands below hold no contraction.
_normalize_command(command) ==
    SelectSeq(LowerAll(command), LAMBDA w : w \notin Punctuation)

\* The elements of a regular expression, read on words: a word out of a set,
\* an optional word, ".*" between two blanks (one word or more), a trailing
\* "\s+" (a word follows).
One(ws) == [kind |-> "one", words |-> ws]
Opt(ws) == [kind |-> "opt", words |-> ws]
Gap == [kind |-> "gap", words |-> {}]
More == [kind |-> "more", words |-> {}]

RECURSIVE MatchAt(_, _, _)
MatchAt(toks, i, pat) ==
    IF pat = <<>> THEN TRUE
    ELSE LET e == Head(pat)
             rest == Tail(pat)
         IN CASE e.kind = "one" ->
                   i <= Len(toks) /\ toks[i] \in e.words /\ MatchAt(toks, i + 1, rest)
              [] e.kind = "opt" ->
                   \/ i <= Len(toks) /\ toks[i] \in e.words /\ MatchAt(toks, i + 1, rest)
                   \/ MatchAt(toks, i, rest)
              [] e.kind = "gap" ->
                   \E j \in (i + 1)..(Len(toks) + 1) : MatchAt(toks, j, rest)
              [] e.kind = "more" ->
                   i <= Len(toks) /\ MatchAt(toks, i, rest)

\* re.search(pattern, command)
Search(toks, pat) == \E i \in 1..Len(toks) : MatchAt(toks, i, pat)

\* CommandPatterns.INTENT_PATTERNS in the order of the dict; n is the number
\* of patterns the source lists for the intent, an alternative of several
\* words is spelled out.  A group with no boundary after it also takes the
\* longer words of the commands that begin with it ("rows", "database").
INTENT_PATTERNS == <<
    [intent |-> "CREATE_DATABASE", n |-> 2, patterns |-> {
        <<One({"create", "make", "build", "setup"}), Opt({"a"}), Opt({"new"}),
          One({"database"})>>,
        <<One({"initialize"}), One({"database"})>>}],
    [intent |-> "DROP_DATABASE", n |-> 1, patterns |-> {
        <<One({"drop", "delete", "remove", "destroy"}), One({"database"})>>}],
    [intent |-> "CREATE_TABLE", n |-> 3, patterns |-> {
        <<One({"create", "make", "build", "add"}), Opt({"a"}), Opt({"new"}),
          One({"table"})>>,
        <<One({"create", "make"}), Gap, One({"table"}), One({"called"})>>,
        <<One({"table"}), One({"creation"})>>}],
    [intent |-> "ALTER_TABLE", n |-> 3, patterns |-> {
        <<One({"alter", "modify", "change", "update"}), One({"table"})>>,
        <<One({"add", "remove", "drop"}), Opt({"a"}), One({"column"})>>,
        <<One({"rename", "change"}), One({"column"})>>}],
    [intent |-> "DROP_TABLE", n |-> 1, patterns |-> {
        <<One({"drop", "delete", "remove", "destroy"}), One({"table"})>>}],
    [intent |-> "INSERT", n |-> 3, patterns |-> {
        <<One({"insert", "add", "create", "put"}), Opt({"a"}), Opt({"new"}),
          One({"row", "rows", "record", "records", "entry", "data", "database"})>>,
        <<One({"add"}), Gap, One({"to"}), More>>,
        <<One({"insert"}), One({"into"})>>}],
    [intent |-> "UPDATE", n |-> 2, patterns |-> {
        <<One({"update", "modify", "change", "edit", "set"}), More>>,
        <<One({"change"}), Gap, One({"to"}), More>>}],
    [intent |-> "DELETE", n |-> 2, patterns |-> {
        <<One({"delete", "remove", "drop"}), Opt({"all"}), Opt({"the"}),
          One({"row", "rows", "record", "records", "entries", "data", "database"})>>,
        <<One({"remove"}), Gap, One({"from"})>>}],
    [intent |-> "COUNT", n |-> 2, patterns |-> {
        <<One({"count", "total"})>>,
        <<One({"how"}), One({"many"})>>,
        <<One({"number"}), One({"of"})>>,
        <<One({"count"}), More>>}],
    [intent |-> "SHOW", n |-> 2, patterns |-> {
        <<One({"show", "display", "list", "get", "fetch", "retrieve", "find"}), More>>,
        <<One({"select", "query"})>>}],
    [intent |-> "DESCRIBE", n |-> 2, patterns |-> {
        <<One({"describe", "explain"})>>,
        <<One({"show"}), One({"structure"})>>,
        <<One({"schema"}), One({"of"})>>,
        <<One({"what"}), One({"is", "are"}), One({"the"}),
          One({"structure", "fields", "columns"})>>}],
    [intent |-> "JOIN", n |-> 3, patterns |-> {
        <<One({"join"}), More>>,
        <<One({"combine"}), Gap, One({"with"})>>,
        <<One({"merge"}), More>>}],
    [intent |-> "SELECT", n |-> 2, patterns |-> {
        <<One({"select"}), More>>,
        <<One({"where"}), More>>}] >>

\* _detect_intent: the first intent one of whose patterns is found, with 0.9
\* when the intent has one pattern and 0.8 otherwise; then the keyword
\* fallback.  Confidences are in hundredths.
_detect_intent(command) ==
    LET hits == {k \in 1..Len(INTENT_PATTERNS) :
                    \E p \in INTENT_PATTERNS[k].patterns : Search(command, p)}
    IN IF hits # {}
       THEN LET k == CHOOSE h \in hits : \A g \in hits : h <= g
            IN [intent |-> INTENT_PATTERNS[k].intent,
                confidence |-> IF INTENT_PATTERNS[k].n = 1 THEN 90 ELSE 80]
       ELSE IF \E i \in 1..Len(command) :
                  command[i] \in {"show", "get", "fetch", "display", "list"}
            THEN [intent |-> "SELECT", confidence |-> 60]
            ELSE [intent |-> "UNKNOWN", confidence |-> 30]

\* An entity pattern, read on words: the keywords, an optional filler, the
\* captured group (one word, digits, the rest of the text, or the words up
\* to " and " / " or "), and the word that has to follow the group.
Rule(keys, fillers, take, follow) ==
    [keys |-> keys, fillers |-> fillers, take |-> take, follow |-> follow]

Numerals == {"5", "7"}

\* The last word of the group that starts at s.
GroupEnd(rule, toks, s) ==
    CASE rule.take = "rest" -> Len(toks)
      [] rule.take = "until" ->
           CHOOSE j \in s..Len(toks) :
              /\ j = Len(toks) \/ (toks[j + 1] \in {"and", "or"} /\ j + 2 <= Len(toks))
              /\ \A h \in s..(j - 1) :
                    ~(toks[h + 1] \in {"and", "or"} /\ h + 2 <= Len(toks))
      [] OTHER -> s

GroupOk(rule, toks, s) ==
    /\ s <= Len(toks)
    /\ rule.take = "digits" => toks[s] \in Numerals
    /\ rule.follow # {} =>
          /\ s + 1 <= Len(toks)
          /\ toks[s + 1] \in rule.follow

\* A match of the pattern that begins at word i: whether there is one, the
\* captured group, and where the search goes on.
Capture(rule, toks, i) ==
    LET k == Len(rule.keys)
        keyed == /\ i + k - 1 <= Len(toks)
                 /\ \A j \in 1..k : toks[i + j - 1] \in rule.keys[j]
        p == i + k
        filled == keyed /\ p <= Len(toks) /\ toks[p] \in rule.fillers
                        /\ GroupOk(rule, toks, p + 1)
        s == IF filled THEN p + 1 ELSE p
        hit == keyed /\ GroupOk(rule, toks, s)
        e == IF hit THEN GroupEnd(rule, toks, s) ELSE s
    IN [hit |-> hit,
        value |-> IF hit THEN SubSeq(toks, s, e) ELSE <<>>,
        next |-> IF rule.follow # {} \/ (rule.take = "until" /\ e < Len(toks))
                 THEN e + 2 ELSE e + 1]

\* re.finditer(pattern, command): the groups of the matches, left to right,
\* no two overlapping.
RECURSIVE FindIter(_, _, _)
FindIter(rule, toks, i) ==
    IF i > Len(toks) THEN <<>>
    ELSE LET c == Capture(rule, toks, i)
         IN IF c.hit THEN <<c.value>> \o FindIter(rule, toks, c.next)
            ELSE FindIter(rule, toks, i + 1)

TABLE_PATTERNS == <<
    Rule(<<{"table"}>>, {"called", "named"}, "word", {}),
    Rule(<<{"from"}>>, {}, "word", {}),
    Rule(<<{"into"}>>, {}, "word", {}),
    Rule(<<{"in", "of"}>>, {"the"}, "word", {"table", "tables"}) >>

COLUMN_PATTERNS == <<
    Rule(<<{"column", "columns"}>>, {}, "word", {}),
    Rule(<<{"field", "fields"}>>, {}, "word", {}),
    Rule(<<{"where"}>>, {}, "word", {"=", "<", ">", "!"}),
    Rule(<<{"set"}>>, {}, "word", {"="}) >>

DATABASE_PATTERNS == <<
    Rule(<<{"database"}>>, {"called", "named"}, "word", {}),
    Rule(<<{"use"}>>, {}, "word", {}) >>

CONDITION_PATTERNS == <<
    Rule(<<{"where"}>>, {}, "until", {}),
    Rule(<<{"greater", "less", "more", "fewer"}, {"than"}>>, {}, "digits", {}),
    Rule(<<{"equal", "equals"}>>, {}, "rest", {}),
    Rule(<<{"start", "starts"}, {"with"}>>, {}, "word", {}),
    Rule(<<{"end", "ends"}, {"with"}>>, {}, "word", {}),
    Rule(<<{"contain", "contains"}>>, {}, "word", {}) >>

VALUE_PATTERNS == <<
    Rule(<<{"="}>>, {}, "rest", {}),
    Rule(<<{"value", "values"}>>, {}, "rest", {}) >>

\* The groups of every pattern of the list, pattern after pattern.
RECURSIVE Extract(_, _)
Extract(patterns, toks) ==
    IF patterns = <<>> THEN <<>>
    ELSE FindIter(Head(patterns), toks, 1) \o Extract(Tail(patterns), toks)

\* "Remove duplicates": the first entity of each value is kept.
Unique(values) ==
    SelectSeq([i \in 1..Len(values) |->
                  IF \E h \in 1..(i - 1) : values[h] = values[i]
                  THEN <<"duplicate">> ELSE <<"entity", values[i]>>],
              LAMBDA x : x[1] = "entity")

Entities(type, confidence, patterns, toks) ==
    LET kept == Unique(Extract(patterns, toks))
    IN [i \in 1..Len(kept) |->
           [type |-> type, value |-> kept[i][2], confidence |-> confidence,
            validated |-> "none"]]

\* _extract_entities
_extract_entities(command) ==
    [tables |-> Entities("table", 90, TABLE_PATTERNS, command),
     columns |-> Entities("column", 80, COLUMN_PATTERNS, command),
     databases |-> Entities("database", 90, DATABASE_PATTERNS, command),
     conditions |-> Entities("condition", 70, CONDITION_PATTERNS, command),
     values |-> Entities("value", 70, VALUE_PATTERNS, command)]

\* self.schema: nothing (the default), or the tables of a snapshot.
NoProcessorSchema == [given |-> FALSE, tables |-> {}]
ProcessorSchemas == {NoProcessorSchema, [given |-> TRUE, tables |-> {<<"students">>}]}

\* _validate_entities
_validate_entities(schema, entities) ==
    IF ~schema.given THEN entities
    ELSE [entities EXCEPT !.tables =
            [i \in 1..Len(entities.tables) |->
                IF entities.tables[i].value \in schema.tables
                THEN [entities.tables[i] EXCEPT !.confidence = 100,
                                                !.validated = "yes"]
                ELSE [entities.tables[i] EXCEPT !.confidence = @ \div 2,
                                                !.validated = "no"]]]

\* A _check_clarification that asks nothing about the rows of a DELETE.
CheckClarificationNoWarning(intent, entities) ==
    LET questions ==
          (IF intent \in {"SELECT", "UPDATE", "DELETE"} /\ entities.tables = <<>>
           THEN <<"Which table would you like to work with?">> ELSE <<>>)
          \o (IF intent = "UPDATE" /\ entities.conditions = <<>>
              THEN <<"Which rows should I update? (Please specify a condition)">>
              ELSE <<>>)
    IN [requires_clarification |-> Len(questions) > 0, questions |-> questions]

\* _check_clarification
_check_clarification(intent, entities) ==
    LET questions ==
          (IF intent \in {"SELECT", "UPDATE", "DELETE"} /\ entities.tables = <<>>
           THEN <<"Which table would you like to work with?">> ELSE <<>>)
          \o (IF intent = "INSERT" /\ entities.tables = <<>>
              THEN <<"Which table should I insert data into?">> ELSE <<>>)
          \o (IF intent = "INSERT" /\ entities.values = <<>>
              THEN <<"What values should I insert?">> ELSE <<>>)
          \o (IF intent \in {"CREATE_TABLE", "ALTER_TABLE"} /\ entities.tables = <<>>
              THEN <<"What should the table be called?">> ELSE <<>>)
          \o (IF intent = "UPDATE" /\ entities.conditions = <<>>
              THEN <<"Which rows should I update? (Please specify a condition)">>
              ELSE <<>>)
          \o (IF intent = "DELETE" /\ entities.conditions = <<>>
              THEN <<"WARNING: This will delete ALL rows. Please confirm or add a condition.">>
              ELSE <<>>)
    IN [requires_clarification |-> Len(questions) > 0, questions |-> questions]

RECURSIVE SumConfidence(_)
SumConfidence(ents) ==
    IF ents = <<>> THEN 0 ELSE Head(ents).confidence + SumConfidence(Tail(ents))

AllEntities(entities) ==
    entities.tables \o entities.columns \o entities.databases
        \o entities.conditions \o entities.values

\* _calculate_confidence, as the fraction num / den of hundredths whose
\* rounding to two decimals the code returns.
_calculate_confidence(intent_confidence, entities) ==
    LET total_entities == Len(AllEntities(entities))
    IN IF total_entities > 0
       THEN [num |-> intent_confidence * total_entities
                        + SumConfidence(AllEntities(entities)),
             den |-> 2 * total_entities]
       ELSE [num |-> intent_confidence * 7, den |-> 10]

\* _build_metadata
_build_metadata(intent, entities) ==
    [destructive |-> intent \in {"DELETE", "DROP_TABLE", "DROP_DATABASE", "ALTER_TABLE"},
     modifies_schema |-> intent \in {"CREATE_TABLE", "ALTER_TABLE", "DROP_TABLE",
                                     "CREATE_DATABASE", "DROP_DATABASE"},
     modifies_data |-> intent \in {"INSERT", "UPDATE", "DELETE"},
     entity_count |-> [tables |-> Len(entities.tables),
                       columns |-> Len(entities.columns),
                       databases |-> Len(entities.databases),
                       conditions |-> Len(entities.conditions),
                       values |-> Len(entities.values)]]

\* CommandProcessor.process
process(schema, raw_command) ==
    LET normalized == _normalize_command(raw_command)
        detected == _detect_intent(normalized)
        validated_entities ==
            _validate_entities(schema, _extract_entities(normalized))
        checked == _check_clarification(detected.intent, validated_entities)
    IN [raw_command |-> raw_command,
        normalized_command |-> normalized,
        intent |-> detected.intent,
        entities |-> validated_entities,
        confidence |-> _calculate_confidence(detected.confidence, validated_entities),
        requires_clarification |-> checked.requires_clarification,
        clarification_questions |-> checked.questions,
        metadata |-> _build_metadata(detected.intent, validated_entities)]

\* No command was processed yet.
NoParsedCommand == [raw_command |-> <<>>, intent |-> "none"]

\* The commands a user types: what to do, on what, which rows, which values.
CommandHeads ==
    {<<"delete", "rows">>, <<"Delete", "all", "the", "records">>,
     <<"remove", "students">>, <<"delete", "table">>, <<"delete", "database">>,
     <<"update">>, <<"set", "status">>, <<"update", "table">>,
     <<"show">>, <<"insert", "into", "students">>, <<"create", "a", "table">>,
     <<"count">>, <<"frobnicate">>}
CommandSources == {<<>>, <<"from", "students">>}
CommandConditions ==
    {<<>>, <<"where", "age", "=", "5">>, <<"greater", "than", "5">>}
CommandValues == {<<>>, <<"values", "7">>}

RawCommands ==
    {h \o s \o c \o v : h \in CommandHeads, s \in CommandSources,
                       c \in CommandConditions, v \in CommandValues}

\* processor.process(raw_command) on a processor built with the schema
Process(schema, raw_command) ==
    /\ parsed_command = NoParsedCommand
    /\ parsed_command' = process(schema, raw_command)
    /\ UNCHANGED <<rvars, svars, sessions, app>>

\* The caller takes the ParsedCommand and is ready to call again.
TakeParsedCommand ==
    /\ parsed_command # NoParsedCommand
    /\ parsed_command' = NoParsedCommand
    /\ UNCHANGED <<rvars, svars, sessions, app>>

CommandNext ==
    \/ \E schema \in ProcessorSchemas, raw \in RawCommands : Process(schema, raw)
    \/ TakeParsedCommand

-----------------------------------------------------------------------------
(* The dashboard's natural-language query path (streamlit_app.py) *)

\* What the last step of the dashboard did: the call (op, the statement, the
\* flags it was given), the status of the executor's result ("raised" when
\* an exception left the executor instead), and the statements that were
\* handed to the database.
AppStep(op, db_type, sql, safe_to_execute, dry_run, status, ran) ==
    [op |-> op, db_type |-> db_type, sql |-> sql,
     safe_to_execute |-> safe_to_execute, dry_run |-> dry_run,
     status |-> status, ran |-> ran]

NoApp == AppStep("none", "none", NullSql, FALSE, FALSE, "none", <<>>)

\* What the database does on a statement: all is well, the connection cannot
\* be opened, or the statement is refused.
DbFaults == {"none", "connection", "statement"}

\* execute_sqlite_query_thread_safe.  The blocked result reads
\* datetime.now() (l.1996) while the function imports datetime further down
\* (l.2001), so the name is a local that has no value yet: UnboundLocalError.
execute_sqlite_query_thread_safe(sql, safe_to_execute, fault) ==
    IF ~safe_to_execute
    THEN [status |-> "raised", ran |-> <<>>]
    ELSE CASE fault = "connection" -> [status |-> "failed", ran |-> <<>>]
           [] fault = "statement"  -> [status |-> "failed", ran |-> <<sql>>]
           [] OTHER                -> [status |-> "success", ran |-> <<sql>>]

\* DatabaseExecutor.execute_query (db_executor.py is not in the tree): taken
\* as documented, a blocked result without safe_to_execute, the statement
\* run otherwise.
execute_query(sql, safe_to_execute, fault) ==
    IF ~safe_to_execute
    THEN [status |-> "blocked", ran |-> <<>>]
    ELSE CASE fault = "connection" -> [status |-> "failed", ran |-> <<>>]
           [] fault = "statement"  -> [status |-> "failed", ran |-> <<sql>>]
           [] OTHER                -> [status |-> "success", ran |-> <<sql>>]

\* execute_sql_query: the executor of the connection's type; an exception
\* that leaves it is shown as an error.
execute_sql_query(output, db_type, fault) ==
    LET r == IF db_type = "sqlite"
             THEN execute_sqlite_query_thread_safe(output.sql, output.safe_to_execute, fault)
             ELSE execute_query(output.sql, output.safe_to_execute, fault)
    IN IF r.status = "raised" THEN [status |-> "error", ran |-> r.ran] ELSE r

\* display_generation_results, from the gate on (l.1982-1984)
display_generation_results(output, db_type, dry_run, fault) ==
    IF PyTruthy(output.sql) /\ output.safe_to_execute /\ ~dry_run
    THEN execute_sql_query(output, db_type, fault)
    ELSE [status |-> "not_executed", ran |-> <<>>]

\* execute_nl_query from the return of reasoner.generate on: the output is
\* displayed and, past the gate, executed; an exception of generate is shown
\* as an error (l.1763).
DisplayGenerationResults(db_type, dry_run, fault) ==
    /\ rout.status # "none"
    /\ \E r \in {IF rout.status = "raised"
                 THEN [status |-> "error", ran |-> <<>>]
                 ELSE display_generation_results(rout, db_type, dry_run, fault)} :
          app' = AppStep("execute_nl_query", db_type, rout.sql,
                         rout.status = "returned" /\ rout.safe_to_execute,
                         dry_run, r.status, r.ran)
    /\ rcall' = NoCall
    /\ rout' = NoOutput
    /\ UNCHANGED <<modules, reasoner, svars, sessions, parsed_command>>

\* A call of execute_sqlite_query_thread_safe(sql, safe_to_execute, ...)
ExecuteSqliteQueryThreadSafe(sql, safe_to_execute, fault) ==
    /\ rout.status = "none"
    /\ app = NoApp
    /\ \E r \in {execute_sqlite_query_thread_safe(sql, safe_to_execute, fault)} :
          app' = AppStep("execute_sqlite_query_thread_safe", "sqlite", sql,
                         safe_to_execute, FALSE, r.status, r.ran)
    /\ UNCHANGED <<rvars, svars, sessions, parsed_command>>

\* The page is run again: the results of the last step are gone.
Rerun ==
    /\ app # NoApp
    /\ app' = NoApp
    /\ UNCHANGED <<rvars, svars, sessions, parsed_command>>

ExecutedStatements ==
    {SqlStr(<<"SELECT", "*", "FROM", "students">>, TRUE, {"students"}),
     SqlStr(<<"DROP", "TABLE", "students">>, TRUE, {"students"})}

\* The dashboard serves one request at a time: a query is generated once the
\* page shows no result of an earlier step.
DashboardNext ==
    \/ app = NoApp /\ \E schema \in Schemas : UpdateSchema(schema)
    \/ app = NoApp /\ GenerateMock
    \/ app = NoApp /\ GenerateReal
    \/ \E db_type \in {"sqlite", "mysql"}, dry_run \in BOOLEAN, fault \in DbFaults :
          DisplayGenerationResults(db_type, dry_run, fault)
    \/ \E sql \in ExecutedStatements, safe_to_execute \in BOOLEAN, fault \in DbFaults :
          ExecuteSqliteQueryThreadSafe(sql, safe_to_execute, fault)
    \/ Rerun

RInit ==
    /\ modules \in [sqlglot : BOOLEAN, genai : BOOLEAN]
    /\ reasoner \in [schema_snapshot : {NO_SCHEMA_PROVIDED}, api_key : BOOLEAN]
    /\ rcall = NoCall
    /\ rout = NoOutput

RNext ==
    \/ \E schema \in Schemas : UpdateSchema(schema)
    \/ GenerateMock
    \/ GenerateReal
    \/ Receive

-----------------------------------------------------------------------------
(* The database behind the connection (environment) *)

Tables == {"classes", "students"}

\* The order in which the engine lists its tables.
TableOrder == <<"classes", "students">>

ColumnNames == <<"id", "name", "age", "email">>

\* The table whose description or row count the environment lets fail, and
\* the table that gets new columns.
FaultTables   == {"students"}
AlteredTables == {"students"}

\* Snapshot ids: one the caller passes, and the ids made of the second in
\* which the snapshot is created (two creations in one second share theirs).
CustomId == "report"
StampIds == {"specialized_20240101_120000"}
SnapshotIds == {CustomId} \cup StampIds

ListedTables == SelectSeq(TableOrder, LAMBDA t : db.present[t])

\* What the environment does to one call: list ("ok"; "error": the listing
\* query fails; "raises": connection.cursor() fails), the tables whose
\* description fails, the tables whose COUNT(*) fails, and how the two file
\* writes end ("ok"; "open_fails": open() raises, the file is untouched;
\* "write_fails": the file was truncated and the write raised).
OkIO ==
    [list |-> "ok", describe_fail |-> {}, count_fail |-> {},
     schema_write |-> "ok", meta_write |-> "ok"]

\* Every call meets at most one fault.
IOs ==
    {OkIO}
    \cup {[OkIO EXCEPT !.list = x] : x \in {"error", "raises"}}
    \cup {[OkIO EXCEPT !.describe_fail = {t}] : t \in FaultTables}
    \cup {[OkIO EXCEPT !.count_fail = {t}] : t \in FaultTables}
    \cup {[OkIO EXCEPT !.schema_write = x] : x \in {"open_fails", "write_fails"}}
    \cup {[OkIO EXCEPT !.meta_write = x] : x \in {"open_fails", "write_fails"}}

-----------------------------------------------------------------------------
(* SchemaAwarenessModule *)

\* row_count = None
None == 0 - 1

SchemaMetadata(database_name, database_type, created_at, last_updated, version, table_count, schema_hash, tables) ==
    [present |-> TRUE, database_name |-> database_name,
     database_type |-> database_type, created_at |-> created_at,
     last_updated |-> last_updated, version |-> version,
     table_count |-> table_count, schema_hash |-> schema_hash, tables |-> tables]

\* hashlib.md5(text.encode()).hexdigest(): the digest stands for its text
\* (no two texts of the model share one).
md5(text) == [md5_of |-> text]

\* current_metadata = None
NoMetadata ==
    [SchemaMetadata("", "", 0, 0, 0, 0, md5(<<>>), <<>>) EXCEPT !.present = FALSE]

TableSchema(name, columns, primary_keys, row_count) ==
    [name |-> name, columns |-> columns, primary_keys |-> primary_keys,
     row_count |-> row_count]

\* A line of the schema text.
Line(kind, name, n) == [kind |-> kind, name |-> name, n |-> n]

\* _get_tables: [] without a connection or when the query fails (also when
\* db_type is not the type of the connection's driver); raised when
\* connection.cursor() raises, as it does on a connection that close() closed.
_get_tables(s, io) ==
    IF s.connection = "none" THEN [raised |-> FALSE, tables |-> <<>>]
    ELSE IF s.closed \/ io.list = "raises" THEN [raised |-> TRUE, tables |-> <<>>]
    ELSE IF io.list = "error" \/ s.db_type # s.connection
         THEN [raised |-> FALSE, tables |-> <<>>]
    ELSE [raised |-> FALSE, tables |-> ListedTables]

\* _get_table_schema: the empty TableSchema when the description fails,
\* row_count None when only the count fails.
_get_table_schema(s, table_name, io) ==
    IF table_name \in io.describe_fail \/ s.db_type # s.connection
    THEN TableSchema(table_name, <<>>, {}, None)
    ELSE TableSchema(table_name,
                     SubSeq(ColumnNames, 1, db.cols[table_name]),
                     {"id"},
                     IF table_name \in io.count_fail THEN None
                     ELSE db.rows[table_name])

\* _get_database_name
_get_database_name(s) ==
    IF s.db_type = "sqlite" THEN "sqlite_db"
    ELSE IF s.db_type = "mysql" /\ s.db_type = s.connection THEN "studentdb"
    ELSE "unknown"

TableBlock(ts) ==
    <<Line("table", ts.name, 0)>>
    \o [i \in 1..Len(ts.columns) |->
          Line("column", ts.columns[i],
               IF ts.columns[i] \in ts.primary_keys THEN 1 ELSE 0)]
    \o (IF ts.row_count # None THEN <<Line("rows", "", ts.row_count)>> ELSE <<>>)

RECURSIVE TableBlocks(_)
TableBlocks(tables_data) ==
    IF tables_data = <<>> THEN <<>>
    ELSE TableBlock(tables_data[1]) \o TableBlocks(Tail(tables_data))

\* _format_schema_text: the header line, then one block per table.
_format_schema_text(tables_data, database_name) ==
    <<Line("database", database_name, 0)>> \o TableBlocks(tables_data)

\* A scan that left out the tables it could not describe.
ScanTextOmitting(s, tables, io) ==
    _format_schema_text(
        [i \in 1..Len(SelectSeq(tables, LAMBDA t : t \notin io.describe_fail)) |->
            _get_table_schema(s, SelectSeq(tables, LAMBDA t : t \notin io.describe_fail)[i], io)],
        _get_database_name(s))

\* The schema text of the tables listed, as generate_full_schema and
\* detect_schema_changes build it.
ScanText(s, tables, io) ==
    _format_schema_text([i \in 1..Len(tables) |-> _get_table_schema(s, tables[i], io)],
                        _get_database_name(s))

AbsentFile  == [state |-> "absent", text |-> <<>>, meta |-> NoMetadata]
PartialFile == [state |-> "partial", text |-> <<>>, meta |-> NoMetadata]
TextFile(text) == [state |-> "written", text |-> text, meta |-> NoMetadata]
JsonFile(meta) == [state |-> "written", text |-> <<>>, meta |-> meta]

\* What a call leaves: the instance, the files, the clock, its return value
\* and how its table listing ended.
SamResult(s, f, c, ret, listing) ==
    [sam |-> s, files |-> f, clock |-> c, ret |-> ret, listing |-> listing]

\* A generate_full_schema that hashed the time of the scan with the text.
NewMetadataHashingTime(s, tables, schema_text, database_name, now) ==
    SchemaMetadata(database_name, s.db_type,
        IF s.current_metadata.present THEN s.current_metadata.created_at ELSE now,
        now,
        IF s.current_metadata.present THEN s.current_metadata.version + 1 ELSE 1,
        Len(tables), md5(<<Line("generated", "", now)>> \o schema_text), tables)

\* A generate_full_schema that stamped created_at at every generation.
NewMetadataRestamped(s, tables, schema_text, database_name, now) ==
    SchemaMetadata(database_name, s.db_type, now, now,
        IF s.current_metadata.present THEN s.current_metadata.version + 1 ELSE 1,
        Len(tables), md5(schema_text), tables)

\* The metadata generate_full_schema builds.
NewMetadata(s, tables, schema_text, database_name, now) ==
    SchemaMetadata(database_name, s.db_type,
        IF s.current_metadata.present THEN s.current_metadata.created_at ELSE now,
        now,
        IF s.current_metadata.present THEN s.current_metadata.version + 1 ELSE 1,
        Len(tables), md5(schema_text), tables)

\* A generate_full_schema that opened schema.txt for writing before it looked
\* at the listing.
NoTablesTruncating(s, f) ==
    SamResult(s, [f EXCEPT !.schema_file = PartialFile], clock, FALSE, "empty")

\* "if not tables: return False"
NoTables(s, f) == SamResult(s, f, clock, FALSE, "empty")

\* generate_full_schema on the instance s with the files f.  datetime.now()
\* gives a later time at every read.
generate_full_schema(s, f, io) ==
    IF s.connection = "none" THEN SamResult(s, f, clock, FALSE, "none")
    ELSE LET l == _get_tables(s, io)
         IN IF l.raised THEN SamResult(s, f, clock, FALSE, "raised")
            ELSE IF l.tables = <<>> THEN NoTables(s, f)
            ELSE LET schema_text == ScanText(s, l.tables, io)
                     now  == clock + 1
                     meta == NewMetadata(s, l.tables, schema_text,
                                         _get_database_name(s), now)
                     s1 == [s EXCEPT !.current_metadata = meta]
                     f1 == [f EXCEPT !.schema_file = TextFile(schema_text)]
                 IN CASE io.schema_write = "open_fails" ->
                           SamResult(s, f, clock, FALSE, "ok")
                      [] io.schema_write = "write_fails" ->
                           SamResult(s, [f EXCEPT !.schema_file = PartialFile],
                                     clock, FALSE, "ok")
                      [] io.schema_write = "ok" /\ io.meta_write = "open_fails" ->
                           SamResult(s1, f1, now, FALSE, "ok")
                      [] io.schema_write = "ok" /\ io.meta_write = "write_fails" ->
                           SamResult(s1, [f1 EXCEPT !.metadata_file = PartialFile],
                                     now, FALSE, "ok")
                      [] OTHER ->
                           SamResult(s1, [f1 EXCEPT !.metadata_file = JsonFile(meta)],
                                     now, TRUE, "ok")

\* detect_schema_changes: "true", "false", or "error" (false after the
\* except branch).
detect_schema_changes(s, io) ==
    IF ~s.current_metadata.present THEN "true"
    ELSE LET l == _get_tables(s, io)
         IN IF l.raised THEN "error"
            ELSE IF md5(ScanText(s, l.tables, io)) # s.current_metadata.schema_hash
                 THEN "true" ELSE "false"

\* The keys of tables_data in create_specialized_snapshot: the requested names
\* in the order of their first occurrence (a dict keeps one entry per name).
RECURSIVE DictKeys(_)
DictKeys(names) ==
    IF names = <<>> THEN <<>>
    ELSE LET front == DictKeys(SubSeq(names, 1, Len(names) - 1))
             last  == names[Len(names)]
         IN IF last \in Range(front) THEN front ELSE Append(front, last)

\* What a call on a specialized snapshot leaves: the instance, the files, the
\* return value (TRUE: the path of the snapshot file, FALSE: None), how the
\* table listing ended and the id of the snapshot.
SnapResult(s, f, ret, listing, id) ==
    [sam |-> s, files |-> f, ret |-> ret, listing |-> listing, id |-> id]

\* A create_specialized_snapshot that warned about the names it did not find
\* and wrote the snapshot of the others.
CreatePartialSnapshot(s, f, table_names, snapshot_id, stamp, io) ==
    LET id    == IF snapshot_id = "" THEN stamp ELSE snapshot_id
        l     == _get_tables(s, io)
        known == SelectSeq(DictKeys(table_names), LAMBDA t : t \in Range(l.tables))
    IN IF s.connection = "none" THEN SnapResult(s, f, FALSE, "none", id)
       ELSE IF l.raised THEN SnapResult(s, f, FALSE, "raised", id)
       ELSE SnapResult([s EXCEPT !.specialized_snapshots = @ \cup {id}],
                       [f EXCEPT !.snapshots[id] = TextFile(ScanText(s, known, io))],
                       TRUE, "ok", id)

\* The text create_specialized_snapshot serializes once every requested name
\* was found.
SnapshotText(s, table_names, io) == ScanText(s, DictKeys(table_names), io)

\* "if table in available_tables ... else: return None"
MissingTable(table_names, available) ==
    \E i \in 1..Len(table_names) : table_names[i] \notin Range(available)

\* create_specialized_snapshot(table_names, snapshot_id); snapshot_id "" is
\* the default None, and stamp the id datetime.now() then gives.
create_specialized_snapshot(s, f, table_names, snapshot_id, stamp, io) ==
    LET id == IF snapshot_id = "" THEN stamp ELSE snapshot_id
        l  == _get_tables(s, io)
    IN IF s.connection = "none" THEN SnapResult(s, f, FALSE, "none", id)
       ELSE IF l.raised THEN SnapResult(s, f, FALSE, "raised", id)
       ELSE IF MissingTable(table_names, l.tables)
            THEN SnapResult(s, f, FALSE, IF l.tables = <<>> THEN "empty" ELSE "ok", id)
       ELSE CASE io.schema_write = "open_fails" ->
                    SnapResult(s, f, FALSE, "ok", id)
              [] io.schema_write = "write_fails" ->
                    SnapResult(s, [f EXCEPT !.snapshots[id] = PartialFile], FALSE, "ok", id)
              [] OTHER ->
                    SnapResult([s EXCEPT !.specialized_snapshots = @ \cup {id}],
                               [f EXCEPT !.snapshots[id] =
                                    TextFile(SnapshotText(s, table_names, io))],
                               TRUE, "ok", id)

\* delete_specialized_snapshot(snapshot_id); remove_fails: os.remove raises.
delete_specialized_snapshot(s, f, snapshot_id, remove_fails) ==
    IF snapshot_id \notin s.specialized_snapshots
    THEN SnapResult(s, f, FALSE, "none", snapshot_id)
    ELSE IF f.snapshots[snapshot_id].state # "absent" /\ remove_fails
    THEN SnapResult(s, f, FALSE, "none", snapshot_id)
    ELSE SnapResult([s EXCEPT !.specialized_snapshots = @ \ {snapshot_id}],
                    [f EXCEPT !.snapshots[snapshot_id] = AbsentFile],
                    TRUE, "none", snapshot_id)

\* close(): the connection is closed (self.connection stays set) and every
\* registered snapshot is deleted; remove_fail are the ids whose file
\* os.remove fails to delete.
close(s, f, remove_fail) ==
    LET gone == {id \in s.specialized_snapshots :
                    f.snapshots[id].state = "absent" \/ id \notin remove_fail}
    IN SnapResult([s EXCEPT !.specialized_snapshots = @ \ gone,
                            !.closed = IF s.connection = "none" THEN @ ELSE TRUE],
                  [f EXCEPT !.snapshots =
                      [id \in SnapshotIds |-> IF id \in gone THEN AbsentFile ELSE @[id]]],
                  TRUE, "none", "")

-----------------------------------------------------------------------------
(* Actions of the Schema Snapshot Manager *)

\* The last call (password, message and log: see ConnectWithPassword): its
\* operation, its return value, what detect_schema_changes
\* answered inside it ("true", "false", "error", or "not_called"), what
\* generate_full_schema returned inside it ("true", "false", "not_called"),
\* how its table listing ended ("ok", "empty", "raised", "none") and whether
\* every introspection query it made succeeded.
SCall(op, ret, detect, generate, listing, clean) ==
    [op |-> op, ret |-> ret, detect |-> detect, generate |-> generate,
     listing |-> listing, clean |-> clean, id |-> "", table_names |-> <<>>,
     password |-> <<>>, message |-> <<>>, log |-> <<>>]

\* The same for a call on a specialized snapshot: its id and the table names
\* requested.
SnapCall(op, ret, listing, clean, id, table_names) ==
    [op |-> op, ret |-> ret, detect |-> "not_called", generate |-> "not_called",
     listing |-> listing, clean |-> clean, id |-> id, table_names |-> table_names,
     password |-> <<>>, message |-> <<>>, log |-> <<>>]

NoSCall == SCall("none", FALSE, "not_called", "not_called", "none", TRUE)

BoolStr(b) == IF b THEN "true" ELSE "false"

Clean(io) == io.list = "ok" /\ io.describe_fail = {} /\ io.count_fail = {}

VersionRoom == sam.current_metadata.version < MaxVersion

\* connect_database(db_type, **connection_params); connects tells whether the
\* driver's connect() succeeds.
ConnectDatabase(db_type, connects, io) ==
    /\ VersionRoom
    /\ IF db_type \notin {"sqlite", "mysql"}
       THEN /\ scall' = SCall("connect_database", FALSE, "not_called", "not_called",
                              "none", TRUE)
            /\ UNCHANGED <<sam, files, clock>>
       ELSE IF ~connects
       THEN /\ sam' = [sam EXCEPT !.db_type = db_type]
            /\ scall' = SCall("connect_database", FALSE, "not_called", "not_called",
                              "none", TRUE)
            /\ UNCHANGED <<files, clock>>
       ELSE \E r \in {generate_full_schema(
                        [sam EXCEPT !.db_type = db_type, !.connection = db_type,
                                    !.closed = FALSE],
                        files, io)} :
                /\ sam' = r.sam
                /\ files' = r.files
                /\ clock' = r.clock
                /\ scall' = SCall("connect_database", r.ret, "not_called",
                                  BoolStr(r.ret), r.listing, Clean(io))
    /\ UNCHANGED <<db, rvars, avars>>

\* Texts of the connection: sequences of characters.
Mask == <<"*", "*", "*", "*", "*", "*">>

\* sub in text
Contains(text, sub) ==
    \E i \in 0..(Len(text) - Len(sub)) : SubSeq(text, i + 1, i + Len(sub)) = sub

\* text.replace(old, new), old not empty: the occurrences of old from left to
\* right, none overlapping another.
RECURSIVE Replace(_, _, _)
Replace(text, old, new) ==
    IF Len(text) < Len(old) THEN text
    ELSE IF SubSeq(text, 1, Len(old)) = old
         THEN new \o Replace(SubSeq(text, Len(old) + 1, Len(text)), old, new)
         ELSE <<Head(text)>> \o Replace(Tail(text), old, new)

\* "if pwd and isinstance(pwd, str) and len(pwd) > 0:
\*      error_msg = error_msg.replace(pwd, "******")"
Redact(error_msg, pwd) ==
    IF pwd # <<>> THEN Replace(error_msg, pwd, Mask) ELSE error_msg

\* connect_database("mysql", password=pwd, ...) when the driver raises an
\* error whose text is message: in pymysql.connect ("connect"), in
\* connection.cursor() of the first scan ("cursor"), in the listing query
\* ("listing"), or nowhere ("none").  log is every text the call prints that
\* holds the text of the error.
ConnectWithPassword(pwd, message, phase) ==
    /\ VersionRoom
    /\ IF phase = "connect"
       THEN /\ sam' = [sam EXCEPT !.db_type = "mysql"]
            /\ scall' = [SCall("connect_database", FALSE, "not_called", "not_called",
                               "none", TRUE)
                           EXCEPT !.password = pwd, !.message = message,
                                  !.log = <<Redact(message, pwd)>>]
            /\ UNCHANGED <<files, clock>>
       ELSE \E io \in {[OkIO EXCEPT !.list = CASE phase = "cursor" -> "raises"
                                                [] phase = "listing" -> "error"
                                                [] OTHER -> "ok"]} :
            \E r \in {generate_full_schema(
                        [sam EXCEPT !.db_type = "mysql", !.connection = "mysql",
                                    !.closed = FALSE],
                        files, io)} :
                /\ sam' = r.sam
                /\ files' = r.files
                /\ clock' = r.clock
                /\ scall' = [SCall("connect_database", r.ret, "not_called",
                                   BoolStr(r.ret), r.listing, Clean(io))
                               EXCEPT !.password = pwd,
                                      !.message = IF phase = "none" THEN <<>> ELSE message,
                                      !.log = CASE phase = "cursor" -> <<message, message>>
                                                [] phase = "listing" -> <<message>>
                                                [] OTHER -> <<>>]
    /\ UNCHANGED <<db, rvars, avars>>

\* generate_full_schema()
GenerateFullSchema(io) ==
    /\ VersionRoom
    /\ \E r \in {generate_full_schema(sam, files, io)} :
          /\ sam' = r.sam
          /\ files' = r.files
          /\ clock' = r.clock
          /\ scall' = SCall("generate_full_schema", r.ret, "not_called",
                            BoolStr(r.ret), r.listing, Clean(io))
    /\ UNCHANGED <<db, rvars, avars>>

\* A detect_schema_changes that stored the hash it computed.
DetectAndStore(io) ==
    /\ \E d \in {detect_schema_changes(sam, io)} :
          /\ scall' = SCall("detect_schema_changes", d = "true", d, "not_called",
                            "none", Clean(io))
          /\ sam' = IF d = "true" /\ sam.current_metadata.present
                    THEN [sam EXCEPT !.current_metadata.schema_hash =
                            md5(ScanText(sam, _get_tables(sam, io).tables, io))]
                    ELSE sam
    /\ UNCHANGED <<files, db, clock, rvars, avars>>

\* detect_schema_changes()
DetectSchemaChanges(io) ==
    /\ \E d \in {detect_schema_changes(sam, io)} :
          scall' = SCall("detect_schema_changes", d = "true", d, "not_called",
                         "none", Clean(io))
    /\ UNCHANGED <<sam, files, db, clock, rvars, avars>>

\* auto_update_on_change(): io1 is met by the detection, io2 by the
\* regeneration.
AutoUpdateOnChange(io1, io2) ==
    /\ VersionRoom
    /\ \E d \in {detect_schema_changes(sam, io1)} :
          IF d = "true"
          THEN \E r \in {generate_full_schema(sam, files, io2)} :
                  /\ sam' = r.sam
                  /\ files' = r.files
                  /\ clock' = r.clock
                  /\ scall' = SCall("auto_update_on_change", r.ret, d,
                                    BoolStr(r.ret), r.listing, Clean(io1) /\ Clean(io2))
          ELSE /\ scall' = SCall("auto_update_on_change", FALSE, d, "not_called",
                                 "none", Clean(io1))
               /\ UNCHANGED <<sam, files, clock>>
    /\ UNCHANGED <<db, rvars, avars>>

\* create_specialized_snapshot(table_names, snapshot_id)
CreateSpecializedSnapshot(table_names, snapshot_id, stamp, io) ==
    /\ \E r \in {create_specialized_snapshot(sam, files, table_names, snapshot_id,
                                             stamp, io)} :
          /\ sam' = r.sam
          /\ files' = r.files
          /\ scall' = SnapCall("create_specialized_snapshot", r.ret, r.listing,
                               Clean(io), r.id, table_names)
    /\ UNCHANGED <<db, clock, rvars, avars>>

\* delete_specialized_snapshot(snapshot_id)
DeleteSpecializedSnapshot(snapshot_id, remove_fails) ==
    /\ \E r \in {delete_specialized_snapshot(sam, files, snapshot_id, remove_fails)} :
          /\ sam' = r.sam
          /\ files' = r.files
          /\ scall' = SnapCall("delete_specialized_snapshot", r.ret, "none", TRUE,
                               snapshot_id, <<>>)
    /\ UNCHANGED <<db, clock, rvars, avars>>

\* close()
Close(remove_fail) ==
    /\ \E r \in {close(sam, files, remove_fail)} :
          /\ sam' = r.sam
          /\ files' = r.files
          /\ scall' = SnapCall("close", FALSE, "none", TRUE, "", <<>>)
    /\ UNCHANGED <<db, clock, rvars, avars>>

\* f.read() of a schema file: "" when nothing was written to it.
FileText(name, file) ==
    IF file.state = "written"
    THEN SchemaText(name, Len(file.text) * LineChars, file.text)
    ELSE SchemaText("", 0, <<>>)

\* prepare_schema_context() of the web application: the whole schema.txt
\* (current_schema "all"), a constant ("none"), or a specialized snapshot of
\* the selected tables, schema.txt standing in when none could be made.
prepare_schema_context(s, f, current_schema, selected_tables, stamp, io) ==
    LET none == [sam |-> s, files |-> f, id |-> "", listing |-> "none"]
    IN CASE current_schema = "all" ->
              [none EXCEPT !.listing = "none"] @@ [text |-> FileText("schema.txt", f.schema_file)]
         [] current_schema = "none" ->
              none @@ [text |-> SchemaText("NO_TABLES_SELECTED", 18, <<>>)]
         [] OTHER ->
              IF selected_tables = <<>> THEN none @@ [text |-> SchemaText("", 0, <<>>)]
              ELSE LET r == create_specialized_snapshot(s, f, selected_tables, "", stamp, io)
                   IN [sam |-> r.sam, files |-> r.files, listing |-> r.listing,
                       id |-> IF r.ret THEN r.id ELSE "",
                       text |-> IF r.ret THEN FileText(r.id, r.files.snapshots[r.id])
                                ELSE FileText("schema.txt", f.schema_file)]

\* execute_nl_query(nl_query, dialect, allow_destructive, dry_run) of the web
\* application: prepare_schema_context, update_schema, generate.  ret tells
\* whether generate was called; what the display does with the output that
\* generate returned is DisplayGenerationResults.
ExecuteNlQuery(current_schema, selected_tables, nl_query, stamp, io) ==
    /\ sam.connection # "none" /\ ~sam.closed
    /\ \E c \in {prepare_schema_context(sam, files, current_schema, selected_tables,
                                        stamp, io)} :
          /\ sam' = c.sam
          /\ files' = c.files
          /\ scall' = SnapCall("execute_nl_query", c.text.len > 0, c.listing, Clean(io),
                               c.id, selected_tables)
          /\ IF c.text.len = 0
             THEN UNCHANGED <<reasoner, rcall, rout>>
             ELSE \E cmd \in {CommandPayload("query", nl_query, FALSE, "sqlite")} :
                  \E g \in {GenerateResult(cmd, NoBackend)} :
                     /\ reasoner' = update_schema(reasoner, c.text)
                     /\ rcall' = [cmd |-> cmd, backend |-> NoBackend, schema |-> c.text,
                                  prompt |-> build_user_prompt(c.text, cmd.command,
                                                               cmd.dialect),
                                  parsed |-> g.parsed, ok |-> g.ok,
                                  destructive_flag |-> g.destructive_flag,
                                  clarify_required |-> g.clarify_required]
                     /\ rout' = g.out
    /\ UNCHANGED <<modules, db, clock, avars>>

\* The database changes under the manager.
DbChange(newdb) ==
    /\ db' = newdb
    /\ scall' = SCall("database_change", FALSE, "not_called", "not_called", "none", TRUE)
    /\ UNCHANGED <<sam, files, clock, rvars, avars>>

AddColumn(t) ==
    /\ db.present[t] /\ db.cols[t] < MaxCols
    /\ DbChange([db EXCEPT !.cols[t] = @ + 1])

CreateTable(t) ==
    /\ ~db.present[t]
    /\ DbChange([db EXCEPT !.present[t] = TRUE, !.cols[t] = 1])

DropTable(t) ==
    /\ db.present[t]
    /\ DbChange([db EXCEPT !.present[t] = FALSE, !.cols[t] = 1])

SInit ==
    /\ sam = [connection |-> "none", db_type |-> "none", current_metadata |-> NoMetadata,
              specialized_snapshots |-> {}, closed |-> FALSE]
    /\ files = [schema_file |-> AbsentFile, metadata_file |-> AbsentFile,
                snapshots |-> [id \in SnapshotIds |-> AbsentFile]]
    /\ db = [present |-> [t \in Tables |-> TRUE], cols |-> [t \in Tables |-> 1],
             rows |-> [t \in Tables |-> 3]]
    /\ clock = 0
    /\ scall = NoSCall
    /\ sessions = NoSessions
    /\ parsed_command = NoParsedCommand
    /\ app = NoApp

\* The calls a caller makes on the manager, db_type drawn from types.  A
\* connect that never reaches the scan meets no fault of it, and a call meets
\* at most one fault.
SamCalls(types) ==
    \/ \E t \in types, c \in BOOLEAN, io \in IOs :
          /\ (t \notin {"sqlite", "mysql"} \/ ~c) => io = OkIO
          /\ t \notin {"sqlite", "mysql"} => ~c
          /\ ConnectDatabase(t, c, io)
    \/ \E io \in IOs : GenerateFullSchema(io)
    \/ \E io \in IOs : DetectSchemaChanges(io)
    \/ \E io1 \in IOs, io2 \in IOs :
          (io1 = OkIO \/ io2 = OkIO) /\ AutoUpdateOnChange(io1, io2)

DbChanges ==
    \/ \E t \in AlteredTables : AddColumn(t)
    \/ \E t \in Tables : CreateTable(t)
    \/ \E t \in Tables : DropTable(t)

\* One supported engine and an unsupported one.
SNext == SamCalls({"sqlite", "oracle"}) \/ DbChanges

-----------------------------------------------------------------------------
(* Specifications *)

Init == RInit /\ SInit

\* The manager as constructed, beside a reasoner in deterministic mode.
InitSAM ==
    /\ modules = [sqlglot |-> FALSE, genai |-> FALSE]
    /\ reasoner = [schema_snapshot |-> NO_SCHEMA_PROVIDED, api_key |-> FALSE]
    /\ rcall = NoCall
    /\ rout = NoOutput
    /\ sam = [connection |-> "none", db_type |-> "none", current_metadata |-> NoMetadata,
              specialized_snapshots |-> {}, closed |-> FALSE]
    /\ files = [schema_file |-> AbsentFile, metadata_file |-> AbsentFile,
                snapshots |-> [id \in SnapshotIds |-> AbsentFile]]
    /\ db = [present |-> [t \in Tables |-> TRUE], cols |-> [t \in Tables |-> 1],
             rows |-> [t \in Tables |-> 3]]
    /\ clock = 0
    /\ scall = NoSCall
    /\ sessions = NoSessions
    /\ parsed_command = NoParsedCommand
    /\ app = NoApp

\* The table lists a caller asks a specialized snapshot of.
SnapshotRequests ==
    {<<>>, <<"students">>, <<"students", "classes">>, <<"students", "students">>,
     <<"students", "ghosts">>, <<"ghosts", "students">>}

\* The faults the scans of SnapNext meet: none, or the sidecar write fails.
ScanIOs == {OkIO, [OkIO EXCEPT !.meta_write = "open_fails"]}

\* The faults create_specialized_snapshot meets.
SnapIOs ==
    {OkIO, [OkIO EXCEPT !.list = "error"], [OkIO EXCEPT !.list = "raises"],
     [OkIO EXCEPT !.schema_write = "write_fails"]}

\* The manager with its specialized snapshots, from connection to close().
SnapNext ==
    \/ ConnectDatabase("sqlite", TRUE, OkIO)
    \/ \E io \in ScanIOs : GenerateFullSchema(io)
    \/ \E io \in ScanIOs : AutoUpdateOnChange(OkIO, io)
    \/ \E names \in SnapshotRequests, id \in {"", CustomId}, stamp \in StampIds,
          io \in SnapIOs :
          /\ io # OkIO => names = <<"students", "classes">>
          /\ CreateSpecializedSnapshot(names, id, stamp, io)
    \/ \E id \in SnapshotIds, fails \in BOOLEAN : DeleteSpecializedSnapshot(id, fails)
    \/ \E remove_fail \in {{}, {CustomId}} : Close(remove_fail)
    \/ \E current_schema \in {"all", "none", "selected"},
          selected_tables \in {<<>>, <<"students">>, <<"students", "ghosts">>},
          stamp \in StampIds :
          /\ current_schema # "selected" => selected_tables = <<>>
          /\ ExecuteNlQuery(current_schema, selected_tables, <<"list", "students">>,
                            stamp, OkIO)
    \/ DropTable("classes")
    \/ CreateTable("classes")

\* The texts over a set of characters, up to a length.
Texts(chars, n) == UNION {[1..k -> chars] : k \in 0..n}

Passwords == Texts({"p", "*"}, MaxPwdLen)
Messages  == Texts({"p", "*", "x"}, MaxMsgLen)

\* Connections to a server that asks for a password.
ConnectNext ==
    \/ \E pwd \in Passwords, message \in Messages,
          phase \in {"connect", "cursor", "listing", "none"} :
           /\ phase = "none" => message = <<>>
           /\ ConnectWithPassword(pwd, message, phase)
    \/ ConnectDatabase("sqlite", TRUE, OkIO)

\* Two sessions on one reasoner, with the critical section or without.
InitSessions ==
    /\ modules \in [sqlglot : BOOLEAN, genai : BOOLEAN]
    /\ reasoner \in [schema_snapshot : {NO_SCHEMA_PROVIDED}, api_key : BOOLEAN]
    /\ rcall = NoCall
    /\ rout = NoOutput
    /\ sam = [connection |-> "none", db_type |-> "none", current_metadata |-> NoMetadata,
              specialized_snapshots |-> {}, closed |-> FALSE]
    /\ files = [schema_file |-> AbsentFile, metadata_file |-> AbsentFile,
                snapshots |-> [id \in SnapshotIds |-> AbsentFile]]
    /\ db = [present |-> [t \in Tables |-> TRUE], cols |-> [t \in Tables |-> 1],
             rows |-> [t \in Tables |-> 3]]
    /\ clock = 0
    /\ scall = NoSCall
    /\ sessions \in {[NoSessions EXCEPT !.locking = l] : l \in BOOLEAN}
    /\ parsed_command = NoParsedCommand
    /\ app = NoApp

Next ==
    RNext \/ SNext \/ SnapNext \/ ConnectNext \/ SessionNext \/ CommandNext
        \/ DashboardNext

\* The whole system.
Spec == Init /\ [][Next]_vars

\* The Reasoning Core alone (the manager stays as constructed).
SpecReasoner == Init /\ [][RNext]_vars

\* The Schema Snapshot Manager alone (no generate() call is made).
SpecSAM == InitSAM /\ [][SNext]_vars

\* connect_database against a server that asks for a password.
SpecConnect == InitSAM /\ [][ConnectNext]_vars

\* Two sessions that share one GeminiReasoner.
SpecSessions == InitSessions /\ [][SessionNext]_vars

\* The Command Processing Layer alone.
SpecCommand == InitSAM /\ [][CommandNext]_vars

\* The dashboard's query path over the Reasoning Core.
SpecDashboard == Init /\ [][DashboardNext]_vars

\* The Schema Snapshot Manager with its specialized snapshots.
SpecSnap == InitSAM /\ [][SnapNext]_vars

-----------------------------------------------------------------------------
(* Properties of the Reasoning Core (checked under SpecReasoner) *)

Returned == rout.status = "returned"

\* The four inputs of the gate in the call that produced rout.
GateRow ==
    <<rcall.ok, rcall.destructive_flag, rcall.cmd.allow_destructive,
      rcall.clarify_required>>

\* The rows of the 16-row truth table whose value is true.
SafeRows ==
    {<<TRUE, FALSE, FALSE, FALSE>>, <<TRUE, FALSE, TRUE, FALSE>>,
     <<TRUE, TRUE, TRUE, FALSE>>}

\* C1: on the path where the model output parsed as a JSON object, the
\* safe_to_execute of the returned ReasonerOutput is true exactly on the rows
\* of the truth table of  validationOk AND (NOT destructive OR
\* allowDestructive) AND NOT clarifyRequired  that are true, for every one of
\* the 16 rows.
C1_SafeToExecuteTruthTable ==
    (Returned /\ rcall.parsed) => (rout.safe_to_execute <=> GateRow \in SafeRows)

\* A permitted destructive answer that validated went through the gate.
C1_Witness ==
    /\ Returned /\ rcall.parsed
    /\ GateRow = <<TRUE, TRUE, TRUE, FALSE>>
    /\ rout.safe_to_execute

\* The SQL text holds DROP, ALTER, DELETE, TRUNCATE or CREATE TABLE.
ContainsDestructiveOperation(sql) ==
    /\ sql.kind = "str"
    /\ \/ \E i \in 1..Len(sql.toks) :
             Lower(sql.toks[i]) \in {"drop", "alter", "delete", "truncate"}
       \/ \E i \in 1..(Len(sql.toks) - 1) :
             Lower(sql.toks[i]) = "create" /\ Lower(sql.toks[i + 1]) = "table"

\* C2: with allow_destructive = false, a returned ReasonerOutput whose sql
\* holds DROP, ALTER, DELETE, TRUNCATE or CREATE TABLE has safe_to_execute =
\* false, the destructive-blocked error and the destructive-blocked warning.
C2_DestructiveAlwaysBlocked ==
    (Returned /\ ~rcall.cmd.allow_destructive
        /\ ContainsDestructiveOperation(rout.sql))
    => /\ ~rout.safe_to_execute
       /\ DestructiveError \in Range(rout.errors)
       /\ BlockedWarning \in Range(rout.warnings)

\* C3: no exception leaves generate; the caller always gets a ReasonerOutput.
C3_NoExceptionEscapes == rout.status # "raised"

\* The response text is JSON neither as it is nor on the slice from the first
\* '{' to the last '}'.
Unparseable(resp) ==
    \/ resp.kind \in {"prose", "prose_braces"}
    \/ resp.kind \in {"list", "null"} /\ resp.fence = "lang"

FailedCall ==
    /\ rout.status # "none"
    /\ _use_real_genai
    /\ rcall.backend.fails \/ Unparseable(rcall.backend.resp)

\* C4: when the backend call failed or its output was JSON neither directly
\* nor after the salvage, generate returned sql = null, confidence = 0.0,
\* safe_to_execute = false and a non-empty errors list; no error embeds more
\* than 1000 characters of the raw output, and on a parse failure one error
\* embeds the first 1000 characters of it (all of it when it is shorter).
C4_FailureOutput ==
    FailedCall =>
       /\ Returned
       /\ rout.sql = NullSql
       /\ rout.confidence = 0
       /\ ~rout.safe_to_execute
       /\ rout.errors # <<>>
       /\ \A i \in 1..Len(rout.errors) : rout.errors[i].snippet <= 1000
       /\ ~rcall.backend.fails =>
             \E i \in 1..Len(rout.errors) :
                rout.errors[i].snippet =
                    IF rcall.backend.resp.len <= 1000 THEN rcall.backend.resp.len
                    ELSE 1000

\* The longest raw output met a failed salvage.
C4_Witness ==
    /\ FailedCall /\ Returned
    /\ rcall.backend.resp.kind = "prose_braces"
    /\ rcall.backend.resp.len = MaxRawLen
    /\ \E i \in 1..Len(rout.errors) : rout.errors[i].snippet = 1000

\* C5: every returned ReasonerOutput with safe_to_execute = false has a
\* message in errors or in warnings.
C5_BlockedHasReason ==
    (Returned /\ ~rout.safe_to_execute)
    => (rout.errors # <<>> \/ rout.warnings # <<>>)

-----------------------------------------------------------------------------
(* Properties of the Schema Snapshot Manager (checked under SpecSAM) *)

\* The hash of the schema text a scan without faults builds of the database
\* as it is.
CleanScanHash ==
    md5(ScanText(sam, _get_tables(sam, OkIO).tables, OkIO))

StoredVersion == sam.current_metadata.version
StoredHash    == sam.current_metadata.schema_hash

\* C6: every step changes version by exactly the number of generate_full_schema
\* calls in it that returned true (1 or 0), so that after N such calls version
\* is the version before plus N, and the first of them sets it to 1.
C6_VersionCountsSuccesses ==
    [][StoredVersion' = StoredVersion + (IF scall'.generate = "true" THEN 1 ELSE 0)]_vars

\* C7: a generate_full_schema whose table listing raised or came back empty
\* returns false and leaves schema.txt, the metadata sidecar and the
\* in-memory metadata as they were.
C7_FailedListingWritesNothing ==
    [][(scall'.generate # "not_called" /\ scall'.listing \in {"empty", "raised"})
        => /\ scall'.generate = "false"
           /\ files' = files
           /\ sam'.current_metadata = sam.current_metadata]_vars

\* A snapshot was stored and a later call found no tables.
C7_Witness ==
    /\ scall.op = "generate_full_schema"
    /\ scall.listing = "empty"
    /\ sam.current_metadata.present
    /\ files.schema_file.state = "written"
    /\ files.metadata_file.state = "written"

\* C8: detect_schema_changes, whatever it returns, leaves the in-memory
\* metadata (version, hash, created_at, last_updated, tables), schema.txt and
\* the metadata sidecar unchanged.
C8_DetectHasNoSideEffect ==
    [][scall'.op = "detect_schema_changes" => (sam' = sam /\ files' = files)]_vars

\* detect_schema_changes found a change against a stored snapshot.
C8_Witness ==
    /\ scall.op = "detect_schema_changes"
    /\ scall.ret
    /\ sam.current_metadata.present
    /\ StoredHash # CleanScanHash

\* C9: auto_update_on_change calls generate_full_schema only when
\* detect_schema_changes answered true; it returns true exactly when version
\* went up by one in the call, and false exactly when version and hash are
\* as before the call.
C9_AutoUpdateReportsUpdate ==
    [][scall'.op = "auto_update_on_change"
        => /\ scall'.generate # "not_called" => scall'.detect = "true"
           /\ scall'.ret <=> StoredVersion' = StoredVersion + 1
           /\ ~scall'.ret <=> (StoredVersion' = StoredVersion
                               /\ StoredHash' = StoredHash)]_vars

\* C10 as stated: two successful generate_full_schema calls with no change of
\* the tables between them store the same hash.
C10_AsStated ==
    [][(scall.generate = "true" /\ scall'.generate = "true")
        => StoredHash' = StoredHash]_vars

\* C10: when every introspection query succeeds, (a) a successful
\* generate_full_schema stores the hash of the schema text of the tables as
\* they are, which is also the text it wrote to schema.txt, (b) two such calls
\* with no change between them store the same hash, (c) detect_schema_changes
\* answers true exactly when the stored hash is not the hash of the present
\* schema text, so false straight after such a call, and (d) adding a column
\* to a table changes the hash the next such call stores.
C10_HashStableAndSensitive ==
    [][/\ (scall'.generate = "true" /\ scall'.clean)
            => /\ StoredHash' = CleanScanHash'
               /\ StoredHash' = md5(files'.schema_file.text)
       /\ (scall.generate = "true" /\ scall.clean
            /\ scall'.generate = "true" /\ scall'.clean)
            => StoredHash' = StoredHash
       /\ (scall'.op = "detect_schema_changes" /\ scall'.clean
            /\ sam.current_metadata.present)
            => (scall'.ret <=> StoredHash # CleanScanHash)
       /\ (scall.generate = "true" /\ scall.clean
            /\ scall'.op = "detect_schema_changes" /\ scall'.clean)
            => ~scall'.ret
       /\ (scall'.op = "database_change" /\ db'.present = db.present
            /\ sam.connection # "none")
            => CleanScanHash' # CleanScanHash]_vars

\* A column was added and the next faultless generate_full_schema stored a
\* second snapshot.
C10_Witness ==
    /\ scall.generate = "true" /\ scall.clean
    /\ StoredVersion = 2
    /\ \E t \in Tables : db.cols[t] = 2
    /\ StoredHash = CleanScanHash

-----------------------------------------------------------------------------
(* Properties of the specialized snapshots (checked under SpecSnap) *)

\* The tables a schema text describes.
TablesOfText(text) == {text[i].name : i \in {j \in 1..Len(text) : text[j].kind = "table"}}

\* C11: a create_specialized_snapshot asked for a name that is not a table
\* of the database returns None, leaves every file as it was and registers
\* nothing, wherever the name stands in the list; and one that returns a
\* path has registered its id and written a snapshot that describes exactly
\* the tables requested.
C11_SnapshotAllOrNothing ==
    [][scall'.op = "create_specialized_snapshot"
        => /\ (\E i \in 1..Len(scall'.table_names) :
                    scall'.table_names[i] \notin Range(ListedTables))
                => /\ ~scall'.ret
                   /\ files' = files
                   /\ sam'.specialized_snapshots = sam.specialized_snapshots
           /\ scall'.ret
                => /\ scall'.id \in sam'.specialized_snapshots
                   /\ files'.snapshots[scall'.id].state = "written"
                   /\ TablesOfText(files'.snapshots[scall'.id].text)
                        = Range(scall'.table_names)]_vars

\* A request whose second name is unknown was refused while the first one
\* is a table of the database.
C11_Witness ==
    /\ scall.op = "create_specialized_snapshot"
    /\ scall.table_names = <<"students", "ghosts">>
    /\ scall.listing = "ok"
    /\ ~scall.ret
    /\ sam.connection # "none" /\ ~sam.closed

\* C12: once a query of the web application that made a specialized
\* snapshot for its reasoning call has completed, the snapshot's file is
\* deleted and its id is no longer registered.
C12_SnapshotDiscardedAfterCall ==
    (scall.op = "execute_nl_query" /\ scall.ret /\ scall.id # "")
    => /\ scall.id \notin sam.specialized_snapshots
       /\ files.snapshots[scall.id].state = "absent"

-----------------------------------------------------------------------------
(* Properties of connect_database (checked under SpecConnect) *)

\* C13: when connect_database returned false and the text of the driver's
\* error holds the password it was given, no text the call printed holds the
\* password.
C13_PasswordNeverPrinted ==
    (scall.op = "connect_database" /\ ~scall.ret /\ scall.password # <<>>
        /\ Contains(scall.message, scall.password))
    => \A i \in 1..Len(scall.log) : ~Contains(scall.log[i], scall.password)

-----------------------------------------------------------------------------
(* Properties of build_user_prompt (checked under SpecReasoner) *)

\* The part of the prompt that is neither the schema text nor the marker.
PromptAround(prompt) ==
    PromptFrameLen + DialectLen(prompt.dialect) + CommandLen(prompt.command)

\* C14 as stated: the prompt built from a schema text longer than the budget
\* holds the marker and is at most budget + marker length characters long.
C14_AsStated ==
    (rout.status # "none" /\ rcall.schema.len > MAX_SCHEMA_PROMPT_CHARS)
    => /\ rcall.prompt.marker
       /\ rcall.prompt.len <= MAX_SCHEMA_PROMPT_CHARS + MarkerLen

\* C14: the prompt built from a schema text longer than the budget holds the
\* marker, and its schema part (the cut text and the marker) is exactly
\* budget + marker length characters long; the whole prompt is longer by the
\* instructions, the dialect and the request around it.  A schema text within
\* the budget goes in whole, without the marker.
C14_TruncationKeepsMarker ==
    rout.status # "none"
    => /\ rcall.prompt.len = PromptAround(rcall.prompt) + rcall.prompt.schema.len
       /\ IF rcall.schema.len > MAX_SCHEMA_PROMPT_CHARS
          THEN /\ rcall.prompt.marker
               /\ rcall.prompt.schema.len = MAX_SCHEMA_PROMPT_CHARS + MarkerLen
          ELSE /\ ~rcall.prompt.marker
               /\ rcall.prompt.schema = rcall.schema

C14_Witness ==
    /\ rout.status # "none"
    /\ rcall.schema.len = MAX_SCHEMA_PROMPT_CHARS + MaxExcess
    /\ rcall.prompt.marker
    /\ rcall.prompt.schema.len = MAX_SCHEMA_PROMPT_CHARS + MarkerLen
    /\ rcall.prompt.len > MAX_SCHEMA_PROMPT_CHARS + MarkerLen

-----------------------------------------------------------------------------
(* Properties of parse_and_validate_sql (checked under SpecReasoner) *)

\* C15: for every SQL string that is not empty, whether it parses or not and
\* whether sqlglot is there or not, the warnings of the validation hold the
\* destructive-keyword warning exactly when one of drop, alter, delete,
\* truncate is a whole word of the string, in any case of letters.
C15_KeywordWarningIffKeyword ==
    (Returned /\ rout.sql.kind = "str" /\ rout.sql.toks # <<>>)
    => (DestructiveWarning \in Range(rout.warnings)
            <=> \E i \in 1..Len(rout.sql.toks) :
                    Lower(rout.sql.toks[i]) \in {"drop", "alter", "delete", "truncate"})

-----------------------------------------------------------------------------
(* Properties of simple_mock_llm_generate (checked under SpecReasoner) *)

\* generate ran on the command with no real backend.
MockRan(command) ==
    /\ rout.status # "none"
    /\ ~_use_real_genai
    /\ rcall.cmd.command = command

\* C16: with no real backend, generate returns
\*   for "count how many classes exist": SELECT COUNT(*) FROM classes; with
\*     clarify_required false;
\*   for "show me students whose surname starts with A": SELECT * FROM
\*     students WHERE surname LIKE 'A%';
\*   for "create a new table called pets with fields name, species, age": a
\*     CREATE TABLE pets statement that names the three fields, with
\*     destructive true, so safe_to_execute is false when allow_destructive is
\*     false;
\*   for a text no rule knows: sql null with clarify_required true.
C16_MockScenarios ==
    /\ MockRan(<<"count", "how", "many", "classes", "exist">>)
       => /\ Returned
          /\ rout.sql.toks = <<"SELECT", "COUNT", "(", "*", ")", "FROM", "classes", ";">>
          /\ ~rcall.clarify_required
    /\ MockRan(<<"show", "me", "students", "whose", "surname", "starts", "with", "A">>)
       => /\ Returned
          /\ rout.sql.toks = <<"SELECT", "*", "FROM", "students", "WHERE", "surname",
                               "LIKE", "'", "A", "%", "'", ";">>
    /\ MockRan(<<"create", "a", "new", "table", "called", "pets", "with", "fields",
                 "name", ",", "species", ",", "age">>)
       => /\ Returned
          /\ SubSeq(rout.sql.toks, 1, 4) = <<"CREATE", "TABLE", "pets", "(">>
          /\ {"name", "species", "age"} \subseteq Range(rout.sql.toks)
          /\ rcall.destructive_flag
          /\ ~rcall.cmd.allow_destructive => ~rout.safe_to_execute
    /\ MockRan(<<"asdkjasldk", "random", "nonsense">>)
       => /\ Returned
          /\ rout.sql = NullSql
          /\ rcall.clarify_required
          /\ ~rout.safe_to_execute

C16_Witness ==
    /\ MockRan(<<"create", "a", "new", "table", "called", "pets", "with", "fields",
                 "name", ",", "species", ",", "age">>)
    /\ Returned
    /\ rout.sql.toks = <<"CREATE", "TABLE", "pets", "(",
                         "name", "VARCHAR", "(", "255", ")", ",",
                         "species", "VARCHAR", "(", "255", ")", ",",
                         "age", "VARCHAR", "(", "255", ")", ")", ";">>
    /\ ~rcall.cmd.allow_destructive
    /\ ~rout.safe_to_execute

\* C17: with no real backend,
\*   "count ... from <table>" and "count ... of <table>" give
\*     SELECT COUNT(*) FROM <table>;
\*   "<column> starts with <X>" gives a LIKE '<X>%' filter on that column;
\*   "create a new table called <name> with fields <f1>, <f2>, ..." gives a
\*     CREATE TABLE <name> where VARCHAR follows every field;
\*   "show <table>", "list <table>" and "display <table>" give
\*     SELECT * FROM <table>;
C17_PatternFamilies ==
    (rout.status # "none" /\ ~_use_real_genai)
    => LET c == rcall.cmd.command
           n == Len(c)
           q == rout.sql.toks
       IN /\ (n >= 3 /\ c[1] = "count" /\ c[n - 1] \in {"from", "of"})
             => /\ Returned
                /\ q = <<"SELECT", "COUNT", "(", "*", ")", "FROM", c[n], ";">>
          /\ \A i \in 1..(n - 3) :
                (c[i + 1] = "starts" /\ c[i + 2] = "with")
                => /\ Returned
                   /\ \E k \in 1..(Len(q) - 6) :
                         SubSeq(q, k, k + 6)
                           = <<"WHERE", c[i], "LIKE", "'", c[i + 3], "%", "'">>
          /\ (n >= 9 /\ SubSeq(c, 1, 5) = <<"create", "a", "new", "table", "called">>
                /\ SubSeq(c, 7, 8) = <<"with", "fields">>
                /\ \A k \in 9..n : (c[k] = ",") <=> (k % 2 = 0))
             => /\ Returned
                /\ SubSeq(q, 1, 3) = <<"CREATE", "TABLE", c[6]>>
                /\ \A k \in 9..n :
                      c[k] # "," => \E j \in 1..(Len(q) - 1) :
                                       q[j] = c[k] /\ q[j + 1] = "VARCHAR"
          /\ (n = 2 /\ c[1] \in {"show", "list", "display"})
             => /\ Returned
                /\ q = <<"SELECT", "*", "FROM", c[2], ";">>

-----------------------------------------------------------------------------
(* Properties of the metadata of a ReasonerOutput (checked under SpecReasoner) *)

\* C18: every ReasonerOutput that generate returns, on whatever path, has a
\* metadata mapping with the keys tables, columns and pretty.
C18_MetadataHasKeys ==
    Returned => {"tables", "columns", "pretty"} \subseteq rout.metadata.keys

-----------------------------------------------------------------------------
(* Properties of a shared GeminiReasoner (checked under SpecSessions) *)

\* C19: generate builds its prompt from the schema text the instance holds
\* when it is called.  So when each update_schema-then-generate pair runs as
\* a critical section, every generate of a session builds its prompt from the
\* text of that session; a generate that built its prompt from another text
\* ran without the critical section.
C19_CriticalSectionUsesOwnSchema ==
    /\ rout.status # "none"
       => rcall.prompt = build_user_prompt(rcall.schema, rcall.cmd.command,
                                           IF rcall.cmd.dialect # ""
                                           THEN rcall.cmd.dialect ELSE DEFAULT_DIALECT)
    /\ \A s \in SessionNames :
          (sessions.used[s] \notin {NoSchemaUsed, SessionSchema(s)})
          => ~sessions.locking

\* Without the critical section: a generate of s1 that built its prompt from
\* the schema text of s2.
C19_Witness ==
    /\ ~sessions.locking
    /\ sessions.used["s1"] = SessionSchema("s2")
    /\ rout.status # "none"
    /\ rcall.schema = SessionSchema("s2")
    /\ rcall.prompt.schema = Truncate(SessionSchema("s2")).text

-----------------------------------------------------------------------------
(* Properties of the metadata's stamps (checked under SpecSnap) *)

\* C20: once a generate_full_schema has set created_at, no operation on the
\* manager (regeneration, auto update, failed generation, creation or
\* deletion of a specialized snapshot, close) changes it; and each successful
\* regeneration sets last_updated to the time it read, later than the one
\* before.
C20_CreatedAtImmutable ==
    [][/\ sam.current_metadata.present
          => /\ sam'.current_metadata.present
             /\ sam'.current_metadata.created_at = sam.current_metadata.created_at
       /\ (scall'.generate = "true" /\ clock' # clock)
          => /\ sam'.current_metadata.present
             /\ sam'.current_metadata.last_updated = clock'
             /\ sam.current_metadata.present
                => sam'.current_metadata.last_updated
                     > sam.current_metadata.last_updated]_vars

C20_Witness ==
    /\ sam.current_metadata.present
    /\ sam.current_metadata.version >= 2
    /\ sam.current_metadata.last_updated > sam.current_metadata.created_at
    /\ sam.current_metadata.last_updated = clock
    /\ scall.generate = "true"
    /\ sam.specialized_snapshots # {}

-----------------------------------------------------------------------------
(* Properties of the scan (checked under SpecSAM) *)

\* The positions of the table blocks in a schema text.
BlockStarts(text) == {i \in 1..Len(text) : text[i].kind = "table"}

\* The block of table t in the text is its heading alone: no column line and
\* no row count follow it.
EmptyBlock(text, t) ==
    \E i \in BlockStarts(text) :
        /\ text[i].name = t
        /\ i = Len(text) \/ text[i + 1].kind = "table"

-----------------------------------------------------------------------------
(* Properties of the confidence (checked under SpecReasoner; tenths) *)

\* C22: on every path where the backend's answer parsed as JSON, the returned
\* confidence is 0.9 when the validation succeeded and no clarification is
\* required and 0.4 otherwise, whatever destructive and allow_destructive
\* are; on every path the returned confidence is 0.0, 0.4 or 0.9, so within
\* [0, 1].
C22_TwoLevelConfidence ==
    Returned
    => /\ rcall.parsed
          => rout.confidence = IF rcall.ok /\ ~rcall.clarify_required THEN 9 ELSE 4
       /\ rout.confidence \in {0, 4, 9}
       /\ 0 <= rout.confidence /\ rout.confidence <= 10

\* A blocked destructive answer with confidence 0.9.
C22_Witness ==
    /\ Returned
    /\ rcall.parsed
    /\ rcall.ok /\ ~rcall.clarify_required
    /\ rcall.destructive_flag /\ ~rcall.cmd.allow_destructive
    /\ ~rout.safe_to_execute
    /\ rout.confidence = 9

-----------------------------------------------------------------------------
(* Properties of the substitute's answers (checked under SpecReasoner) *)

\* C24: the substitute tries its rules in the order count, starts-with,
\* create-table, show: the answer is that of the first rule the request
\* matches.  In every answer sql is null exactly when clarify_required is
\* true, and a request no rule matches gets sql null, clarify_required true
\* and destructive false.
C24_RuleOrderAndClarify ==
    (Returned /\ ~_use_real_genai)
    => LET cmd == LowerAll(rcall.cmd.command \o PromptTrailer)
           q   == rout.sql.toks
       IN /\ (rout.sql = NullSql) <=> rcall.clarify_required
          /\ IF "count" \in Range(cmd)
             THEN /\ rout.sql = NullSql \/ SubSeq(q, 1, 2) = <<"SELECT", "COUNT">>
                  /\ ~rcall.destructive_flag
             ELSE IF StartsWithAt(cmd) # {}
             THEN "LIKE" \in Range(q) /\ ~rcall.destructive_flag
             ELSE IF CreateAt(cmd) # {}
             THEN SubSeq(q, 1, 2) = <<"CREATE", "TABLE">> /\ rcall.destructive_flag
             ELSE IF ShowAt(cmd) # {}
             THEN /\ SubSeq(q, 1, 3) = <<"SELECT", "*", "FROM">>
                  /\ Len(q) = 5
                  /\ ~rcall.destructive_flag
             ELSE /\ rout.sql = NullSql
                  /\ rcall.clarify_required
                  /\ ~rcall.destructive_flag

\* A request that the count rule and the show rule both match, answered by
\* the count rule.
C24_Witness ==
    /\ Returned /\ ~_use_real_genai
    /\ rcall.cmd.command = <<"show", "count", "from", "users">>
    /\ rout.sql.toks = <<"SELECT", "COUNT", "(", "*", ")", "FROM", "users", ";">>
    /\ ~rcall.clarify_required

\* C25: every ReasonerOutput made through the substitute differs from every
\* one the real backend's path can give for the same command, by a mark of
\* its provenance in explain_text or metadata: two runs that differ only in
\* which backend answered never return the same output.
C25_SubstituteIsMarked ==
    (Returned /\ ~_use_real_genai)
    => \A b \in Backends :
          ~b.fails => Interpret(rcall.cmd, rout.dialect, b.resp).out # rout

-----------------------------------------------------------------------------
(* What safe_to_execute implies (checked under SpecReasoner) *)

\* C26: every ReasonerOutput that generate returns with safe_to_execute =
\* true has an empty errors list, an sql that is not null and confidence 0.9.
C26_SafeImplies ==
    (Returned /\ rout.safe_to_execute)
    => /\ rout.errors = <<>>
       /\ rout.sql # NullSql
       /\ rout.sql.kind = "str" /\ rout.sql.toks # <<>>
       /\ rout.confidence = 9

\* A permitted destructive statement that is safe to execute.
C26_Witness ==
    /\ Returned
    /\ rout.safe_to_execute
    /\ rcall.destructive_flag /\ rcall.cmd.allow_destructive
    /\ rout.errors = <<>>
    /\ rout.sql.kind = "str"
    /\ rout.confidence = 9

-----------------------------------------------------------------------------
(* Frame of the manager's operations (checked under SpecSAM, SpecConnect) *)

\* C27: the version and the schema_hash of the metadata in memory change
\* only in a call in which generate_full_schema returned true; a
\* generate_full_schema that returns false, whatever the reason, a failed
\* connect, detect_schema_changes, the snapshot operations and close leave
\* both as they were.
C27_VersionChangesOnlyOnSuccess ==
    [][(\/ sam'.current_metadata.version # sam.current_metadata.version
        \/ sam'.current_metadata.schema_hash # sam.current_metadata.schema_hash)
       => scall'.generate = "true"]_vars

\* C28: a connect_database that returns false because the connection could
\* not be established leaves the connection handle, the database type tag
\* and the current metadata as they were.
C28_FailedConnectChangesNothing ==
    [][(/\ scall'.op = "connect_database"
        /\ ~scall'.ret
        /\ scall'.generate = "not_called")
       => /\ sam'.connection = sam.connection
          /\ sam'.db_type = sam.db_type
          /\ sam'.current_metadata = sam.current_metadata]_vars

-----------------------------------------------------------------------------
(* The registry of specialized snapshots (checked under SpecSnap) *)

\* C29: every create_specialized_snapshot without a snapshot_id that succeeds
\* registers a new snapshot: its id was not registered, the registry grows by
\* that one entry, and the file of no other snapshot changes, also when two
\* calls fall into the same second; and after close() the registry is empty.
C29_AutoIdsAreFresh ==
    [][/\ \A names \in SnapshotRequests, stamp \in StampIds, io \in SnapIOs :
            (CreateSpecializedSnapshot(names, "", stamp, io) /\ scall'.ret)
            => /\ scall'.id \notin sam.specialized_snapshots
               /\ files.snapshots[scall'.id].state = "absent"
               /\ sam'.specialized_snapshots
                    = sam.specialized_snapshots \cup {scall'.id}
               /\ Cardinality(sam'.specialized_snapshots)
                    = Cardinality(sam.specialized_snapshots) + 1
               /\ \A id \in SnapshotIds \ {scall'.id} :
                     files'.snapshots[id] = files.snapshots[id]
       /\ \A remove_fail \in {{}, {CustomId}} :
            Close(remove_fail) => sam'.specialized_snapshots = {}]_vars

-----------------------------------------------------------------------------
(* C30 *)

\* C30: in the ParsedCommand that process returns, requires_clarification is
\* true exactly when clarification_questions is not empty, and a command
\* whose intent is DELETE or UPDATE and that has no condition entity has
\* requires_clarification true.
C30_ClarificationFlag ==
    parsed_command.intent # "none" =>
        /\ parsed_command.requires_clarification
              <=> (parsed_command.clarification_questions # <<>>)
        /\ (/\ parsed_command.intent \in {"DELETE", "UPDATE"}
            /\ parsed_command.entities.conditions = <<>>)
              => parsed_command.requires_clarification

\* A DELETE that names its table and no rows: the warning is its one question.
C30_Witness ==
    /\ parsed_command.intent = "DELETE"
    /\ parsed_command.entities.tables # <<>>
    /\ parsed_command.entities.conditions = <<>>
    /\ parsed_command.requires_clarification
    /\ Len(parsed_command.clarification_questions) = 1

-----------------------------------------------------------------------------
(* C23 *)

\* C23: a call of the executor with safe_to_execute false gives a result of
\* status "blocked" and hands no statement to the database.
C23_UnsafeIsBlocked ==
    (app.op = "execute_sqlite_query_thread_safe" /\ ~app.safe_to_execute)
        => (app.status = "blocked" /\ app.ran = <<>>)

\* On the query path a statement reaches the database only past the gate:
\* the output was safe to execute, its sql was not null, dry-run was off.
C23_OnlyThroughTheGate ==
    (app.op = "execute_nl_query" /\ app.ran # <<>>)
        => /\ app.safe_to_execute
           /\ app.sql.kind # "null"
           /\ ~app.dry_run
           /\ app.ran = <<app.sql>>

C23_GateWitness ==
    /\ app.op = "execute_nl_query"
    /\ app.ran # <<>>
    /\ app.status = "success"

=============================================================================
